---- MODULE Spec2Model ----
(***************************************************************************)
(* A model of dispaset/preprocessing/data_check.py: the input checks of    *)
(* Dispa-SET.  Every checker is a function of its arguments whose only     *)
(* effects are log messages and the end of the process (sys.exit or an     *)
(* uncaught exception).  The state holds the arguments of the call, the    *)
(* position of the call (pc), the messages logged so far (log) and the     *)
(* checks the call has evaluated (evaluated).                              *)
(*                                                                         *)
(* Numbers are Python floats modelled as exact rationals n/d (d > 0), with *)
(* NaN and the two infinities as separate values.                          *)
(***************************************************************************)
EXTENDS Integers, Sequences, FiniteSets, TLC

VARIABLES
    fn,             \* the checker that is called
    plants,         \* the unit table (a DataFrame)
    config,         \* the configuration mapping (HorizonLength)
    plants_merged,  \* the clustered unit table
    AF,             \* the availability-factor table
    df_min,         \* minimum flows, indexed [line][time step]
    df_max,         \* maximum flows, indexed [line][time step]
    SimulationPath, \* the argument of check_simulation_environment
    store_type,     \* its store_type argument
    data,           \* the heat demand table of check_heat_demand
    history,        \* the calls finished before the present one, in order
    pc,             \* "call", "returned", "exited" (sys.exit) or "raised"
    exc,            \* the uncaught exception when pc = "raised"
    log,            \* the messages logged, in order
    evaluated       \* the checks evaluated by the call, in order

vars == <<fn, plants, config, plants_merged, AF, df_min, df_max,
          SimulationPath, store_type, data, history, pc, exc, log, evaluated>>

\* --------------------------------------------------------------------------
\* Bounds of the model
\* --------------------------------------------------------------------------
MaxRows == 2
MaxEdits == 2

\* --------------------------------------------------------------------------
\* Values: the cells of a table
\* --------------------------------------------------------------------------
Num(n, d) == [t |-> "num", n |-> n, d |-> d, s |-> ""]
Whole(n) == Num(n, 1)
NaN == [t |-> "nan", n |-> 0, d |-> 1, s |-> ""]
PInf == [t |-> "pinf", n |-> 1, d |-> 1, s |-> ""]
NInf == [t |-> "ninf", n |-> -1, d |-> 1, s |-> ""]
Str(s) == [t |-> "str", n |-> 0, d |-> 1, s |-> s]

IsStr(x) == x.t = "str"
IsNan(x) == x.t = "nan"
IsFloat(x) == x.t \in {"num", "nan", "pinf", "ninf"}

\* n1/d1 < n2/d2 for d1, d2 > 0, by the integer parts and then the remainders
\* (no product of a numerator and a denominator is formed)
RECURSIVE Less(_, _, _, _)
Less(n1, d1, n2, d2) ==
    LET q1 == n1 \div d1
        q2 == n2 \div d2
        r1 == n1 - q1 * d1
        r2 == n2 - q2 * d2
    IN IF q1 # q2 THEN q1 < q2
       ELSE IF r2 = 0 THEN FALSE
       ELSE IF r1 = 0 THEN TRUE
       ELSE Less(d2, r2, d1, r1)
\* Python's a < b on floats: False as soon as one side is NaN.
Lt(a, b) ==
    CASE a.t = "nan" \/ b.t = "nan" -> FALSE
      [] a.t = "num" /\ b.t = "num" -> Less(a.n, a.d, b.n, b.d)
      [] a.t = "ninf" -> b.t # "ninf"
      [] a.t = "pinf" -> FALSE
      [] a.t = "num" -> b.t = "pinf"
Eq(a, b) ==
    CASE a.t = "nan" \/ b.t = "nan" -> FALSE
      [] a.t = "num" /\ b.t = "num" ->
            ~Less(a.n, a.d, b.n, b.d) /\ ~Less(b.n, b.d, a.n, a.d)
      [] OTHER -> a.t = b.t
Gt(a, b) == Lt(b, a)
Le(a, b) == Lt(a, b) \/ Eq(a, b)
Ge(a, b) == Le(b, a)

\* float(x).is_integer()
is_integer(x) == x.t = "num" /\ x.n % x.d = 0

\* --------------------------------------------------------------------------
\* Float arithmetic (numpy.float64): exact on the rationals, IEEE on NaN, the
\* infinities and the division by zero (the zero divisors met are +0.0).
\* --------------------------------------------------------------------------
Abs(x) == IF x < 0 THEN -x ELSE x
RECURSIVE GCD(_, _)
GCD(a, b) == IF b = 0 THEN a ELSE GCD(b, a % b)
Norm(n, d) ==
    LET g == GCD(Abs(n), Abs(d))
        sgn == IF d < 0 THEN -1 ELSE 1
    IN Num((sgn * n) \div g, (sgn * d) \div g)
Sign(a) ==
    CASE a.t = "pinf" -> 1
      [] a.t = "ninf" -> -1
      [] a.t = "num" -> IF a.n > 0 THEN 1 ELSE IF a.n < 0 THEN -1 ELSE 0
Signed(sg) == IF sg > 0 THEN PInf ELSE IF sg < 0 THEN NInf ELSE NaN
FAdd(a, b) ==
    CASE a.t = "nan" \/ b.t = "nan" -> NaN
      [] a.t = "num" /\ b.t = "num" ->
            LET g == GCD(a.d, b.d)
            IN Norm(a.n * (b.d \div g) + b.n * (a.d \div g), (a.d \div g) * b.d)
      [] a.t = "num" -> b
      [] b.t = "num" -> a
      [] OTHER -> IF a.t = b.t THEN a ELSE NaN
FMul(a, b) ==
    CASE a.t = "nan" \/ b.t = "nan" -> NaN
      [] a.t = "num" /\ b.t = "num" ->
            LET g == GCD(Abs(a.n), b.d)
                h == GCD(Abs(b.n), a.d)
            IN Norm((a.n \div g) * (b.n \div h), (a.d \div h) * (b.d \div g))
      [] OTHER -> Signed(Sign(a) * Sign(b))
FDiv(a, b) ==
    CASE a.t = "nan" \/ b.t = "nan" -> NaN
      [] a.t = "num" /\ b.t = "num" ->
            IF b.n = 0 THEN Signed(Sign(a))
            ELSE LET g == GCD(Abs(a.n), Abs(b.n))
                     h == GCD(a.d, b.d)
                 IN IF a.n = 0 THEN Whole(0)
                    ELSE Norm((a.n \div g) * (b.d \div h), (a.d \div h) * (b.n \div g))
      [] a.t = "num" -> Whole(0)
      [] b.t = "num" -> Signed(Sign(a) * (IF b.n < 0 THEN -1 ELSE 1))
      [] OTHER -> NaN
FNeg(a) ==
    CASE a.t = "num" -> Num(-a.n, a.d)
      [] a.t = "pinf" -> NInf
      [] a.t = "ninf" -> PInf
      [] OTHER -> a
FSub(a, b) == FAdd(a, FNeg(b))
\* np.abs
FAbs(a) == IF Sign(IF a.t = "nan" THEN Whole(0) ELSE a) < 0 THEN FNeg(a) ELSE a
\* '{:.2f}'.format(x): x rounded to hundredths
Round2(a) ==
    IF a.t # "num" THEN a
    ELSE Norm((200 * a.n + a.d) \div (2 * a.d), 100)

\* --------------------------------------------------------------------------
\* Log messages and the outcome of a call
\* --------------------------------------------------------------------------
Msg(level, text, args) == [level |-> level, text |-> text, args |-> args]

Outcome(p, e, l, ev) == [pc |-> p, exc |-> e, log |-> l, evaluated |-> ev]
Returned(l, ev) == Outcome("returned", "", l, ev)
Exited(l, ev) == Outcome("exited", "", l, ev)
Raised(e, l, ev) == Outcome("raised", e, l, ev)

\* --------------------------------------------------------------------------
\* Tables: columns (the set of column names), index (row labels) and rows
\* --------------------------------------------------------------------------
Table(cols, idx, rows) == [columns |-> cols, index |-> idx, rows |-> rows]
NRows(t) == Len(t.rows)
Positions(t) == 1 .. Len(t.rows)

\* the positions among ps, in row order, as a sequence
RECURSIVE InOrder(_, _, _)
InOrder(ps, i, n) ==
    IF i > n THEN <<>>
    ELSE (IF i \in ps THEN <<i>> ELSE <<>>) \o InOrder(ps, i + 1, n)

\* plants[mask][col].tolist() with the cells' strings
ColumnOf(t, ps, col) ==
    LET order == InOrder(ps, 1, NRows(t))
    IN [k \in 1 .. Len(order) |-> t.rows[order[k]][col].s]

Range(s) == {s[i] : i \in 1 .. Len(s)}

\* --------------------------------------------------------------------------
\* check_units
\* --------------------------------------------------------------------------
keys == <<"Unit", "Fuel", "Zone", "Technology", "PowerCapacity", "PartLoadMin",
          "RampUpRate", "RampDownRate", "StartUpTime", "MinUpTime",
          "MinDownTime", "NoLoadCost", "StartUpCost", "Efficiency",
          "CO2Intensity">>
NonNaNKeys == <<"PowerCapacity", "PartLoadMin", "RampUpRate", "RampDownRate",
                "Efficiency", "RampingCost", "CO2Intensity">>
StrKeys == <<"Unit", "Zone", "Fuel", "Technology">>

\* The four dictionaries of bounds, as the keys in the order of the source
\* and the bound of each key.
lowerKeys == <<"PowerCapacity", "PartLoadMin", "StartUpTime", "MinUpTime",
               "MinDownTime", "NoLoadCost", "StartUpCost">>
lower_hardKeys == <<"RampUpRate", "RampDownRate", "Efficiency">>
higherKeys == <<"PartLoadMin", "Efficiency">>
higher_timeKeys == <<"MinUpTime", "MinDownTime">>
lower == [k \in Range(lowerKeys) |-> Whole(0)]
lower_hard == [k \in Range(lower_hardKeys) \cup {"Nunits"} |-> Whole(0)]
higher == [k \in Range(higherKeys) |-> Whole(1)]

Check(stage, key) == <<stage, key>>

\* 'Nunits' in plants: any(not float(x).is_integer() ...).  float() of a
\* string that is no number raises ValueError.
NunitsRaises(pl) == \E i \in Positions(pl) : IsStr(pl.rows[i]["Nunits"])
NunitsNotInteger(pl) ==
    \E i \in Positions(pl) : ~is_integer(pl.rows[i]["Nunits"])

\* mutant: the last missing key is reported
FirstMissing_last(ks, cols, i) ==
    IF \A k \in i .. Len(ks) : ks[k] \in cols THEN 0
    ELSE CHOOSE k \in i .. Len(ks) :
            ks[k] \notin cols /\ \A j \in k + 1 .. Len(ks) : ks[j] \in cols
\* for key in keys: if key not in plants: the first such key, or 0
RECURSIVE FirstMissing(_, _, _)
FirstMissing(ks, cols, i) ==
    IF i > Len(ks) THEN 0
    ELSE IF ks[i] \notin cols THEN i
    ELSE FirstMissing(ks, cols, i + 1)

\* for key in NonNaNKeys: for u in plants.index: the first (key, row) that
\* ends the call, as an outcome, or the outcome "call" when none does.
RECURSIVE NonNaNLoop(_, _, _, _, _, _)
NonNaNLoop(pl, ks, k, i, l, ev) ==
    IF k > Len(ks) THEN Outcome("call", "", l, ev)
    ELSE IF i > NRows(pl) THEN NonNaNLoop(pl, ks, k + 1, 1, l, ev)
    ELSE IF ks[k] \notin pl.columns THEN Raised("KeyError", l, ev)
    ELSE IF IsStr(pl.rows[i][ks[k]])
        THEN Exited(Append(l, Msg("critical", "non numeric value",
                                  [key |-> ks[k]])), ev)
    ELSE IF IsNan(pl.rows[i][ks[k]])
        THEN Exited(Append(l, Msg("critical", "data is missing",
                                  [key |-> ks[k], unit |-> pl.index[i]])), ev)
    ELSE NonNaNLoop(pl, ks, k, i + 1, l, ev)

\* for key in StrKeys: for u in plants.index
RECURSIVE StrLoop(_, _, _, _, _, _)
StrLoop(pl, ks, k, i, l, ev) ==
    IF k > Len(ks) THEN Outcome("call", "", l, ev)
    ELSE IF i > NRows(pl) THEN StrLoop(pl, ks, k + 1, 1, l, ev)
    ELSE IF ~IsStr(pl.rows[i][ks[k]])
        THEN Exited(Append(l, Msg("critical", "numeric value",
                                  [key |-> ks[k]])), ev)
    ELSE IF pl.rows[i][ks[k]].s = ""
        THEN Exited(Append(l, Msg("critical", "empty value",
                                  [key |-> ks[k], unit |-> pl.index[i]])), ev)
    ELSE StrLoop(pl, ks, k, i + 1, l, ev)

\* plants['Unit'].duplicated(): every occurrence of a name but its first
duplicated(pl) ==
    {i \in Positions(pl) :
        \E j \in 1 .. i - 1 : pl.rows[j]["Unit"] = pl.rows[i]["Unit"]}
\* len(plants['Unit'].unique()) != len(plants['Unit'])
NotUnique(pl) ==
    Cardinality({pl.rows[i]["Unit"] : i \in Positions(pl)}) # NRows(pl)
\* mutant: the zones of the repeated rows only, without the first occurrence
DuplicatesMsg_repeatedZones(pl) ==
    LET duplicates == ColumnOf(pl, duplicated(pl), "Unit")
    IN Msg("error", "not unique",
           [duplicates |-> duplicates, first |-> duplicates[1],
            zones |-> ColumnOf(pl, duplicated(pl), "Zone")])
DuplicatesMsg(pl) ==
    LET duplicates == ColumnOf(pl, duplicated(pl), "Unit")
        first == {i \in Positions(pl) : pl.rows[i]["Unit"].s = duplicates[1]}
    IN Msg("error", "not unique",
           [duplicates |-> duplicates, first |-> duplicates[1],
            zones |-> ColumnOf(pl, first, "Zone")])

\* The range checks, in the order in which check_units runs them.
RangeChecksOf(stage, ks) == [i \in 1 .. Len(ks) |-> Check(stage, ks[i])]
RangeChecks(pl) ==
    RangeChecksOf("lower", lowerKeys)
    \o RangeChecksOf("lower_hard",
          IF "Nunits" \in pl.columns THEN Append(lower_hardKeys, "Nunits")
          ELSE lower_hardKeys)
    \o RangeChecksOf("higher", higherKeys)
    \o RangeChecksOf("higher_time", higher_timeKeys)

\* mutant: the upper bound compared the wrong way round
Violates_flipped(cfg, c, x) ==
    CASE c[1] = "lower" -> Lt(x, lower[c[2]])
      [] c[1] = "lower_hard" -> Le(x, lower_hard[c[2]])
      [] c[1] = "higher" -> Lt(x, higher[c[2]])
      [] c[1] = "higher_time" -> Ge(x, Whole(cfg.HorizonLength * 24))
\* mutant: the strict lower bound lets the bound itself pass
Violates_notStrict(cfg, c, x) ==
    CASE c[1] = "lower" -> Lt(x, lower[c[2]])
      [] c[1] = "lower_hard" -> Lt(x, lower_hard[c[2]])
      [] c[1] = "higher" -> Gt(x, higher[c[2]])
      [] c[1] = "higher_time" -> Ge(x, Whole(cfg.HorizonLength * 24))
\* the comparison of one range check on one cell
Violates(cfg, c, x) ==
    CASE c[1] = "lower" -> Lt(x, lower[c[2]])
      [] c[1] = "lower_hard" -> Le(x, lower_hard[c[2]])
      [] c[1] = "higher" -> Gt(x, higher[c[2]])
      [] c[1] = "higher_time" -> Ge(x, Whole(cfg.HorizonLength * 24))
\* plants[plants[key] < lower[key]]: the rows a range check selects
Violators(cfg, pl, c) ==
    {i \in Positions(pl) : Violates(cfg, c, pl.rows[i][c[2]])}

RECURSIVE RangeLoop(_, _, _, _, _, _)
RangeLoop(cfg, pl, cs, k, l, ev) ==
    IF k > Len(cs) THEN Returned(l, ev)
    ELSE IF Violators(cfg, pl, cs[k]) # {}
        THEN Exited(Append(l, Msg("critical", cs[k][1],
                        [key |-> cs[k][2],
                         plantlist |-> ColumnOf(pl, Violators(cfg, pl, cs[k]),
                                                "Unit")])),
                    Append(ev, cs[k]))
    ELSE RangeLoop(cfg, pl, cs, k + 1, l, Append(ev, cs[k]))

\* The checks from the uniqueness of the names on.
UniqueAndRanges(cfg, pl, l, ev) ==
    IF NotUnique(pl)
    THEN Exited(Append(l, DuplicatesMsg(pl)), Append(ev, Check("unique", "Unit")))
    ELSE RangeLoop(cfg, pl, RangeChecks(pl), 1, l,
                   Append(ev, Check("unique", "Unit")))

\* The checks from the presence of the columns on.
ColumnsAndValues(cfg, pl, l, ev) ==
    LET ks == IF "Nunits" \in pl.columns THEN Append(keys, "Nunits") ELSE keys
        nn == IF "Nunits" \in pl.columns THEN Append(NonNaNKeys, "Nunits")
              ELSE NonNaNKeys
        miss == FirstMissing(ks, pl.columns, 1)
        ev1 == Append(ev, Check("keys", ""))
        ev2 == Append(ev1, Check("NonNaNKeys", ""))
        ev3 == Append(ev2, Check("StrKeys", ""))
        r2 == NonNaNLoop(pl, nn, 1, 1, l, ev2)
        r3 == StrLoop(pl, StrKeys, 1, 1, l, ev3)
    IN IF miss # 0
       THEN Exited(Append(l, Msg("critical", "missing field",
                                 [key |-> ks[miss]])), ev1)
       ELSE IF r2.pc # "call" THEN r2
       ELSE IF r3.pc # "call" THEN r3
       ELSE UniqueAndRanges(cfg, pl, l, ev3)

check_units(cfg, pl) ==
    IF "Nunits" \in pl.columns
    THEN IF NunitsRaises(pl)
         THEN Raised("ValueError", <<>>, <<Check("Nunits", "")>>)
         ELSE IF NunitsNotInteger(pl)
         THEN Exited(<<Msg("error", "Nunits not integers", [key |-> "Nunits"])>>,
                     <<Check("Nunits", "")>>)
         ELSE ColumnsAndValues(cfg, pl, <<>>, <<Check("Nunits", "")>>)
    ELSE ColumnsAndValues(cfg, pl,
            <<Msg("info", "Nunits not present", [key |-> "Nunits"])>>, <<>>)

\* --------------------------------------------------------------------------
\* check_chp
\* --------------------------------------------------------------------------
chp_keys == <<"CHPType", "CHPPowerToHeat", "CHPPowerLossFactor">>
chp_NonNaNKeys == <<"CHPPowerToHeat", "CHPPowerLossFactor">>
chp_StrKeys == <<"CHPType">>
CHPTypes == {"extraction", "back-pressure", "p2h"}

\* str.lower() on the strings of the model
Lower(str) == IF str = "Extraction" THEN "extraction" ELSE str
\* str(u) of an index label
str(u) == IF IsStr(u) THEN u ELSE Str(ToString(u.n))
\* unitname: plants.loc[u,'Unit'] if 'Unit' in plants else str(u)
unitname(pl, i) ==
    IF "Unit" \in pl.columns THEN pl.rows[i]["Unit"] ELSE str(pl.index[i])

\* logging.critical('...' + u + '...') then sys.exit(1): the concatenation
\* raises TypeError when the index label u is no string.
ExitNaming(u, l, ev, msg) ==
    IF IsStr(u) THEN Exited(Append(l, msg), ev) ELSE Raised("TypeError", l, ev)

RECURSIVE ChpNonNaNLoop(_, _, _, _, _, _)
ChpNonNaNLoop(pl, ks, k, i, l, ev) ==
    IF k > Len(ks) THEN Outcome("call", "", l, ev)
    ELSE IF i > NRows(pl) THEN ChpNonNaNLoop(pl, ks, k + 1, 1, l, ev)
    ELSE IF IsStr(pl.rows[i][ks[k]])
        THEN Exited(Append(l, Msg("critical", "non numeric value",
                                  [key |-> ks[k]])), ev)
    ELSE IF IsNan(pl.rows[i][ks[k]])
        THEN Exited(Append(l, Msg("critical", "data is missing",
                           [key |-> ks[k], unit |-> unitname(pl, i)])), ev)
    ELSE ChpNonNaNLoop(pl, ks, k, i + 1, l, ev)

RECURSIVE ChpStrLoop(_, _, _, _, _, _)
ChpStrLoop(pl, ks, k, i, l, ev) ==
    IF k > Len(ks) THEN Outcome("call", "", l, ev)
    ELSE IF i > NRows(pl) THEN ChpStrLoop(pl, ks, k + 1, 1, l, ev)
    ELSE IF ~IsStr(pl.rows[i][ks[k]])
        THEN Exited(Append(l, Msg("critical", "numeric value",
                                  [key |-> ks[k]])), ev)
    ELSE IF pl.rows[i][ks[k]].s = ""
        THEN Exited(Append(l, Msg("critical", "empty value",
                           [key |-> ks[k], unit |-> unitname(pl, i)])), ev)
    ELSE ChpStrLoop(pl, ks, k, i + 1, l, ev)

\* intersection_MaxHeat = plant_PowerCapacity / plant_powertoheat
intersection_MaxHeat(row) == FDiv(row["PowerCapacity"], row["CHPPowerToHeat"])
\* the warning of the extraction branch
MaxHeatWarns(row) ==
    /\ Lower(row["CHPType"].s) = "extraction"
    /\ ~IsNan(row["CHPMaxHeat"])
    /\ Lt(intersection_MaxHeat(row), row["CHPMaxHeat"])
\* mutant: the larger of the given and the derived heat is kept
plant_MaxHeat_larger(row) ==
    IF Lower(row["CHPType"].s) = "extraction"
    THEN IF ~IsNan(row["CHPMaxHeat"])
         THEN IF Lt(row["CHPMaxHeat"], intersection_MaxHeat(row))
              THEN intersection_MaxHeat(row)
              ELSE row["CHPMaxHeat"]
         ELSE intersection_MaxHeat(row)
    ELSE row["CHPMaxHeat"]
\* plant_MaxHeat after the extraction branch
plant_MaxHeat(row) ==
    IF Lower(row["CHPType"].s) = "extraction"
    THEN IF ~IsNan(row["CHPMaxHeat"])
         THEN IF Lt(intersection_MaxHeat(row), row["CHPMaxHeat"])
              THEN intersection_MaxHeat(row)
              ELSE row["CHPMaxHeat"]
         ELSE intersection_MaxHeat(row)
    ELSE row["CHPMaxHeat"]
\* mutant: the power lost to the heat production is left out of the fuel
Fuel_noLoss(row) == FDiv(row["PowerCapacity"], row["Efficiency"])
\* F = (P + C_v * Q)/eta_condensation
Fuel(row) ==
    FDiv(FAdd(row["PowerCapacity"],
              FMul(row["CHPPowerLossFactor"], plant_MaxHeat(row))),
         row["Efficiency"])
\* eta_tot = (P + Q) / F
TotalEfficiency(row) ==
    FDiv(FAdd(row["PowerCapacity"], plant_MaxHeat(row)), Fuel(row))
Unrealistic(te) == Lt(te, Whole(0)) \/ Gt(te, Num(114, 100))
VeryHigh(te) == Gt(te, Num(95, 100))

\* the messages of one unit in the loop of the efficiency values
HeatMessages(pl, i) ==
    IF MaxHeatWarns(pl.rows[i])
    THEN <<Msg("warning", "CHPMaxHeat higher than intersection",
               [given |-> pl.rows[i]["CHPMaxHeat"],
                intersection |-> intersection_MaxHeat(pl.rows[i])])>>
    ELSE <<>>
EfficiencyMessages(pl, i) ==
    LET te == TotalEfficiency(pl.rows[i])
    IN IF Lower(pl.rows[i]["CHPType"].s) = "p2h" THEN <<>>
       ELSE <<Msg("debug", "highest overall efficiency",
                  [u |-> pl.index[i], value |-> Round2(te)])>>
            \o (IF Unrealistic(te)
                THEN <<Msg("critical", "unrealistic",
                           [unit |-> unitname(pl, i), value |-> te])>>
                ELSE IF VeryHigh(te)
                THEN <<Msg("warning", "very high",
                           [unit |-> unitname(pl, i), value |-> te])>>
                ELSE <<>>)

\* for u in plants.index: the efficiency values
RECURSIVE ChpUnitLoop(_, _, _, _)
ChpUnitLoop(pl, i, l, ev) ==
    IF i > NRows(pl) THEN Outcome("call", "", l, ev)
    ELSE IF "PowerCapacity" \notin pl.columns \/ "CHPMaxHeat" \notin pl.columns
        THEN Raised("KeyError", l, ev)
    ELSE
    LET row == pl.rows[i]
        u == pl.index[i]
        type == Lower(row["CHPType"].s)
        powertoheat == row["CHPPowerToHeat"]
        powerlossfactor == row["CHPPowerLossFactor"]
    IN  IF type \notin CHPTypes
        THEN ExitNaming(u, l, ev, Msg("critical", "CHPType",
                            [u |-> u, value |-> row["CHPType"]]))
        ELSE IF Gt(Whole(0), powertoheat) /\ Gt(powertoheat, Whole(10))
        THEN ExitNaming(u, l, ev, Msg("critical", "CHPPowerToHeat",
                            [u |-> u, value |-> powertoheat]))
        ELSE IF Gt(Whole(0), powerlossfactor) /\ Gt(powerlossfactor, Whole(1))
                /\ type # "p2h"
        THEN ExitNaming(u, l, ev, Msg("critical", "CHPPowerLossFactor",
                            [u |-> u, value |-> powerlossfactor]))
        ELSE IF type = "back-pressure" /\ ~Eq(powerlossfactor, Whole(0))
        THEN ExitNaming(u, l, ev, Msg("critical", "CHPPowerLossFactor must be zero",
                            [u |-> u, value |-> powerlossfactor]))
        ELSE IF type # "p2h" /\ "Efficiency" \notin pl.columns
        THEN Raised("KeyError", l \o HeatMessages(pl, i), ev)
        ELSE IF type # "p2h" /\ Unrealistic(TotalEfficiency(row))
        THEN Exited(l \o HeatMessages(pl, i) \o EfficiencyMessages(pl, i), ev)
        ELSE ChpUnitLoop(pl, i + 1,
                         l \o HeatMessages(pl, i) \o EfficiencyMessages(pl, i), ev)

\* if 'CHPMaxHeat' in plants: the warnings of the optional CHPMaxHeat
RECURSIVE MaxHeatLoop(_, _)
MaxHeatLoop(pl, i) ==
    IF i > NRows(pl) THEN <<>>
    ELSE (IF Le(pl.rows[i]["CHPMaxHeat"], Whole(0))
          THEN <<Msg("warning", "shuts down heat production",
                     [u |-> pl.index[i], value |-> pl.rows[i]["CHPMaxHeat"]])>>
          ELSE <<>>) \o MaxHeatLoop(pl, i + 1)

\* if 'STOCapacity' in plants: the warnings of the heat storage; unitname is
\* the one left by the loop of the efficiency values, the last unit's
RECURSIVE STOCapacityLoop(_, _)
STOCapacityLoop(pl, i) ==
    IF i > NRows(pl) THEN <<>>
    ELSE LET Qdot == FDiv(pl.rows[i]["PowerCapacity"], pl.rows[i]["CHPPowerToHeat"])
             sto == pl.rows[i]["STOCapacity"]
         IN (IF Lt(sto, FMul(Qdot, Num(1, 2)))
             THEN <<Msg("warning", "storage very low",
                        [unit |-> unitname(pl, NRows(pl)), value |-> sto,
                         Qdot |-> Qdot])>>
             ELSE IF Gt(sto, FMul(Qdot, Whole(24)))
             THEN <<Msg("warning", "storage very high",
                        [unit |-> unitname(pl, NRows(pl)), value |-> sto,
                         Qdot |-> Qdot])>>
             ELSE <<>>) \o STOCapacityLoop(pl, i + 1)

\* if 'STOSelfDischarge' in plants
RECURSIVE STOSelfDischargeLoop(_, _, _, _)
STOSelfDischargeLoop(pl, i, l, ev) ==
    IF i > NRows(pl) THEN Returned(l, ev)
    ELSE LET sd == pl.rows[i]["STOSelfDischarge"]
             args == [unit |-> unitname(pl, NRows(pl)),
                      value |-> FMul(sd, Whole(100))]
         IN IF Lt(sd, Whole(0))
            THEN Exited(Append(l, Msg("error", "self-discharge negative", args)), ev)
            ELSE IF Gt(sd, Whole(1))
            THEN STOSelfDischargeLoop(pl, i + 1,
                    Append(l, Msg("warning", "self-discharge very high", args)), ev)
            ELSE IF Gt(sd, Whole(24))
            THEN Exited(Append(l, Msg("error", "self-discharge too high", args)), ev)
            ELSE STOSelfDischargeLoop(pl, i + 1, l, ev)

\* the optional checks after the loop of the efficiency values
ChpOptional(pl, l, ev) ==
    LET l1 == IF "CHPMaxHeat" \in pl.columns THEN l \o MaxHeatLoop(pl, 1) ELSE l
        ev1 == IF "CHPMaxHeat" \in pl.columns
               THEN Append(ev, Check("CHPMaxHeat", "")) ELSE ev
        l2 == IF "STOCapacity" \in pl.columns THEN l1 \o STOCapacityLoop(pl, 1)
              ELSE l1
        ev2 == IF "STOCapacity" \in pl.columns
               THEN Append(ev1, Check("STOCapacity", "")) ELSE ev1
    IN IF "STOSelfDischarge" \in pl.columns
       THEN STOSelfDischargeLoop(pl, 1, l2, Append(ev2, Check("STOSelfDischarge", "")))
       ELSE Returned(l2, ev2)

check_chp(cfg, pl) ==
    LET miss == FirstMissing(chp_keys, pl.columns, 1)
        ev1 == <<Check("keys", "")>>
        ev2 == Append(ev1, Check("NonNaNKeys", ""))
        ev3 == Append(ev2, Check("StrKeys", ""))
        ev4 == Append(ev3, Check("efficiency", ""))
        r2 == ChpNonNaNLoop(pl, chp_NonNaNKeys, 1, 1, <<>>, ev2)
        r3 == ChpStrLoop(pl, chp_StrKeys, 1, 1, <<>>, ev3)
        r4 == ChpUnitLoop(pl, 1, <<>>, ev4)
    IN IF miss # 0
       THEN Exited(<<Msg("critical", "missing field", [key |-> chp_keys[miss]])>>,
                   ev1)
       ELSE IF r2.pc # "call" THEN r2
       ELSE IF r3.pc # "call" THEN r3
       ELSE IF r4.pc # "call" THEN r4
       ELSE ChpOptional(pl, r4.log, ev4)

\* --------------------------------------------------------------------------
\* check_clustering
\* --------------------------------------------------------------------------
List_tech_storage == {"HDAM", "HPHS", "BATS", "BEVS", "CAES", "THMS"}

\* techs: the pairs [Technology, Fuel] of the rows, drop_duplicates() keeping
\* the first occurrence of each
RECURSIVE techs(_, _)
techs(pl, i) ==
    IF i > NRows(pl) THEN <<>>
    ELSE LET pair == <<pl.rows[i]["Technology"], pl.rows[i]["Fuel"]>>
         IN (IF \E j \in 1 .. i - 1 :
                   <<pl.rows[j]["Technology"], pl.rows[j]["Fuel"]>> = pair
             THEN <<>> ELSE <<pair>>) \o techs(pl, i + 1)
\* plants[(plants.Technology == tech[0]) & (plants.Fuel == tech[1])]
UnitsOf(pl, tech) ==
    {i \in Positions(pl) :
        pl.rows[i]["Technology"] = tech[1] /\ pl.rows[i]["Fuel"] = tech[2]}
\* (units[col] * units.Nunits).sum() over the rows ps: NaN products are skipped
RECURSIVE SumTimesNunits(_, _, _, _)
SumTimesNunits(pl, ps, col, i) ==
    IF i > NRows(pl) THEN Whole(0)
    ELSE LET x == FMul(pl.rows[i][col], pl.rows[i]["Nunits"])
         IN IF i \in ps /\ ~IsNan(x)
            THEN FAdd(x, SumTimesNunits(pl, ps, col, i + 1))
            ELSE SumTimesNunits(pl, ps, col, i + 1)
\* mutant: the totals are compared without the tolerance of 1 %
NotEqual_exact(old, new) == ~Eq(old, new)
\* np.abs(old - new)/(old + 0.0001) > 0.01
NotEqual(old, new) ==
    Gt(FDiv(FAbs(FSub(old, new)), FAdd(old, Num(1, 10000))), Num(1, 100))

RECURSIVE ClusteringLoop(_, _, _, _)
ClusteringLoop(pl, merged, ts, k) ==
    IF k > Len(ts) THEN Outcome("call", "", <<>>, <<Check("capacity", "")>>)
    ELSE LET P_old == SumTimesNunits(pl, UnitsOf(pl, ts[k]), "PowerCapacity", 1)
             P_new == SumTimesNunits(merged, UnitsOf(merged, ts[k]),
                                     "PowerCapacity", 1)
         IN IF NotEqual(P_old, P_new)
            THEN Exited(<<Msg("error", "installed capacity not equal",
                              [tech |-> ts[k][1].s, fuel |-> ts[k][2].s,
                               P_old |-> P_old, P_new |-> P_new])>>,
                        <<Check("capacity", "")>>)
            ELSE ClusteringLoop(pl, merged, ts, k + 1)

isstorage(pl) ==
    {i \in Positions(pl) : pl.rows[i]["Technology"].s \in List_tech_storage}

check_clustering(pl, merged) ==
    LET r == ClusteringLoop(pl, merged, techs(pl, 1), 1)
        TotalStorage == SumTimesNunits(pl, isstorage(pl), "STOCapacity", 1)
        TotalStorage_merged ==
            SumTimesNunits(merged, isstorage(merged), "STOCapacity", 1)
        ev == <<Check("capacity", ""), Check("storage", "")>>
    IN IF r.pc # "call" THEN r
       ELSE IF NotEqual(TotalStorage, TotalStorage_merged)
       THEN Returned(<<Msg("error", "storage capacity not equal",
                           [old |-> TotalStorage,
                            new |-> TotalStorage_merged])>>, ev)
       ELSE Returned(<<>>, ev)

\* --------------------------------------------------------------------------
\* The unit tables given to check_units: a table of valid rows with distinct
\* names, changed by at most MaxEdits edits (a cell set to another value, a
\* column dropped, another horizon).
\* --------------------------------------------------------------------------
UnitName(i) == Str("U" \o ToString(i))
ZoneName(i) == Str("Z" \o ToString(i))
UnitColumns == Range(keys) \cup {"Nunits", "RampingCost"}
ValidRow(i) ==
    [c \in UnitColumns |->
        CASE c = "Unit" -> UnitName(i)
          [] c = "Zone" -> ZoneName(i)
          [] c = "Fuel" -> Str("GAS")
          [] c = "Technology" -> Str("COMC")
          [] c = "PowerCapacity" -> Whole(100)
          [] c = "PartLoadMin" -> Num(1, 2)
          [] c = "Efficiency" -> Num(2, 5)
          [] c \in {"RampUpRate", "RampDownRate", "MinUpTime", "MinDownTime",
                    "Nunits"} -> Whole(1)
          [] OTHER -> Whole(0)]
RangeIndex(n) == [i \in 1 .. n |-> Whole(i - 1)]
ValidUnits(n) == Table(UnitColumns, RangeIndex(n), [i \in 1 .. n |-> ValidRow(i)])

CellValues ==
    <<  <<"Unit", UnitName(1)>>, <<"Unit", UnitName(2)>>, <<"Unit", Str("")>>,
        <<"PowerCapacity", Whole(-1)>>, <<"PowerCapacity", Whole(0)>>,
        <<"PowerCapacity", NaN>>, <<"PowerCapacity", Str("abc")>>,
        <<"PartLoadMin", Num(-1, 2)>>, <<"PartLoadMin", Num(3, 2)>>,
        <<"RampUpRate", Whole(0)>>, <<"RampDownRate", Whole(0)>>,
        <<"Efficiency", Whole(0)>>, <<"Efficiency", Num(6, 5)>>,
        <<"MinUpTime", Whole(24)>>,
        <<"Nunits", Whole(0)>>, <<"Nunits", Num(3, 2)>>  >>
DroppedColumns == Append(Append(keys, "Nunits"), "RampingCost")

\* the edits of a table of n rows, in a fixed order: the cells row by row,
\* the dropped columns, the other horizon
CellEdit(values, k) ==
    [kind |-> "cell", row |-> ((k - 1) \div Len(values)) + 1,
     col |-> values[((k - 1) % Len(values)) + 1][1],
     val |-> values[((k - 1) % Len(values)) + 1][2]]
DropEdit(col) == [kind |-> "drop", row |-> 0, col |-> col, val |-> NaN]
NumUnitEdits(n) == n * Len(CellValues) + Len(DroppedColumns) + 1
UnitEdit(n, k) ==
    IF k <= n * Len(CellValues) THEN CellEdit(CellValues, k)
    ELSE IF k <= n * Len(CellValues) + Len(DroppedColumns)
    THEN DropEdit(DroppedColumns[k - n * Len(CellValues)])
    ELSE [kind |-> "config", row |-> 0, col |-> "HorizonLength", val |-> Whole(2)]

ApplyEdit(inp, e) ==
    CASE e.kind = "cell" ->
            IF e.col \in inp.plants.columns
            THEN [inp EXCEPT !.plants.rows[e.row][e.col] = e.val]
            ELSE inp
      [] e.kind = "drop" ->
            [inp EXCEPT !.plants.columns = @ \ {e.col},
                        !.plants.rows = [i \in DOMAIN @ |->
                            [c \in (DOMAIN @[i]) \ {e.col} |-> @[i][c]]]]
      [] e.kind = "config" -> [inp EXCEPT !.config.HorizonLength = e.val.n]
      [] e.kind = "merged" ->
            [inp EXCEPT !.plants_merged.rows[e.row][e.col] = e.val]
      [] e.kind = "storage" ->
            [inp EXCEPT !.plants.rows = [i \in DOMAIN @ |->
                            [@[i] EXCEPT !["Technology"] = e.val]],
                        !.plants_merged.rows = [i \in DOMAIN @ |->
                            [@[i] EXCEPT !["Technology"] = e.val]]]
      [] e.kind = "index" ->
            [inp EXCEPT !.plants.index =
                [i \in DOMAIN @ |-> inp.plants.rows[i]["Unit"]]]

\* at most k edits among the first n, in their order; 0 is no edit
EditChoices(n, k) ==
    {ix \in [1 .. k -> 0 .. n] : \A i \in 1 .. k - 1 : ix[i] <= ix[i + 1]}

RECURSIVE UnitInputFrom(_, _, _, _)
UnitInputFrom(inp, n, ix, k) ==
    IF k > Len(ix) THEN inp
    ELSE UnitInputFrom(IF ix[k] = 0 THEN inp ELSE ApplyEdit(inp, UnitEdit(n, ix[k])),
                       n, ix, k + 1)
UnitInput(n, ix) ==
    UnitInputFrom([plants |-> ValidUnits(n), config |-> [HorizonLength |-> 1]],
                  n, ix, 1)

\* --------------------------------------------------------------------------
\* Specifications: the arguments are drawn, then the checker runs
\* --------------------------------------------------------------------------
None == <<>>
Start == pc = "call" /\ exc = "" /\ log = <<>> /\ evaluated = <<>> /\ history = <<>>
Finish(r) ==
    /\ pc' = r.pc
    /\ exc' = r.exc
    /\ log' = r.log
    /\ evaluated' = r.evaluated
    /\ UNCHANGED <<fn, plants, config, plants_merged, AF, df_min, df_max,
                   SimulationPath, store_type, data, history>>

InitUnits ==
    /\ fn = "check_units"
    /\ \E n \in 1 .. MaxRows :
         \E ix \in EditChoices(NumUnitEdits(n), MaxEdits) :
            LET inp == UnitInput(n, ix)
            IN plants = inp.plants /\ config = inp.config
    /\ plants_merged = None /\ AF = None /\ df_min = None /\ df_max = None
    /\ SimulationPath = None /\ store_type = ""
    /\ data = None
    /\ Start
CallCheckUnits ==
    /\ fn = "check_units" /\ pc = "call"
    /\ Finish(check_units(config, plants))
SpecUnits == InitUnits /\ [][CallCheckUnits]_vars

\* --------------------------------------------------------------------------
\* Properties of check_units (SpecUnits)
\* --------------------------------------------------------------------------
Ended == pc # "call"
LastMsg == log[Len(log)]
LastCheck == evaluated[Len(evaluated)]
Reached(c) == c \in Range(evaluated)
RangeStages == {"lower", "lower_hard", "higher", "higher_time"}
Cell(i, c) == plants.rows[i][c]
Rows == Positions(plants)
NamesOf(ps) == {Cell(i, "Unit").s : i \in ps}

Below == {i \in Rows : Lt(Cell(i, "PartLoadMin"), Whole(0))}
Above == {i \in Rows : Gt(Cell(i, "PartLoadMin"), Whole(1))}
\* the PartLoadMin check that is the first to meet a row outside [0,1]
PartLoadMinCheck ==
    IF Below # {} THEN Check("lower", "PartLoadMin")
    ELSE Check("higher", "PartLoadMin")
PartLoadMinCase ==
    /\ fn = "check_units" /\ Ended
    /\ Reached(Check("lower", "PowerCapacity"))
    /\ Below \cup Above # {}
    /\ Reached(PartLoadMinCheck)

\* C1 as stated: when some PartLoadMin is outside [0,1] and no earlier check
\* has ended the run, check_units exits and its message lists exactly the
\* units whose PartLoadMin is outside [0,1].
C1_Original ==
    PartLoadMinCase =>
        /\ pc = "exited"
        /\ LastMsg.args.key = "PartLoadMin"
        /\ Range(LastMsg.args.plantlist) = NamesOf(Below \cup Above)

\* C1 as amended: under the same condition check_units exits at the first
\* PartLoadMin check that a row violates, and the message lists exactly the
\* units violating that bound: the units below 0 when there is one, and
\* otherwise the units above 1.
C1_PartLoadMinList ==
    PartLoadMinCase =>
        /\ pc = "exited"
        /\ LastCheck = PartLoadMinCheck
        /\ LastMsg.level = "critical"
        /\ LastMsg.text = PartLoadMinCheck[1]
        /\ LastMsg.args.key = "PartLoadMin"
        /\ Range(LastMsg.args.plantlist) =
              NamesOf(IF Below # {} THEN Below ELSE Above)
        /\ Len(LastMsg.args.plantlist) =
              Cardinality(IF Below # {} THEN Below ELSE Above)
C1_Witness ==
    /\ PartLoadMinCase /\ pc = "exited"
    /\ Below # {} /\ Above # {}
    /\ LastCheck = Check("lower", "PartLoadMin")

Positive(c) == \A i \in Rows : Gt(Cell(i, c), Whole(0))
\* C2 as stated: a table for which check_units returns has PowerCapacity,
\* RampUpRate, RampDownRate and Efficiency strictly above 0 in every row.
C2_Original ==
    fn = "check_units" /\ pc = "returned" =>
        /\ Positive("PowerCapacity") /\ Positive("RampUpRate")
        /\ Positive("RampDownRate") /\ Positive("Efficiency")

\* C2 as amended: a table for which check_units returns has RampUpRate,
\* RampDownRate and Efficiency strictly above 0 and PowerCapacity at least 0
\* in every row.
C2_StrictlyPositive ==
    fn = "check_units" /\ pc = "returned" =>
        /\ Positive("RampUpRate") /\ Positive("RampDownRate")
        /\ Positive("Efficiency")
        /\ \A i \in Rows : Ge(Cell(i, "PowerCapacity"), Whole(0))
C2_Witness ==
    /\ fn = "check_units" /\ pc = "returned"
    /\ \E i \in Rows : Eq(Cell(i, "PowerCapacity"), Whole(0))

MissingKeys == {k \in 1 .. Len(keys) : keys[k] \notin plants.columns}
FirstMissingKey == keys[CHOOSE k \in MissingKeys : \A j \in MissingKeys : k <= j]
\* C3 as stated: a table lacking a mandatory column makes check_units exit
\* with a message naming the first missing column, before any check of the
\* values of a column.
C3_Original ==
    fn = "check_units" /\ Ended /\ MissingKeys # {} =>
        /\ pc = "exited"
        /\ LastMsg.text = "missing field"
        /\ LastMsg.args.key = FirstMissingKey
        /\ evaluated = <<Check("keys", "")>>

\* C3 as amended: a table lacking a mandatory column makes check_units end
\* fatally.  With no Nunits column, or with only integers in it, the message
\* names the first missing column and no check of values has run but the
\* integer test of Nunits (when the column is there); a Nunits value that is
\* not an integer ends the run at that test instead, naming no column.
C3_MissingColumn ==
    fn = "check_units" /\ Ended /\ MissingKeys # {} =>
        IF "Nunits" \in plants.columns
           /\ \E i \in Rows : ~is_integer(Cell(i, "Nunits"))
        THEN /\ pc = "exited"
             /\ LastMsg.level = "error"
             /\ LastMsg.text = "Nunits not integers"
             /\ evaluated = <<Check("Nunits", "")>>
        ELSE /\ pc = "exited"
             /\ LastMsg.level = "critical"
             /\ LastMsg.text = "missing field"
             /\ LastMsg.args.key = FirstMissingKey
             /\ evaluated = IF "Nunits" \in plants.columns
                            THEN <<Check("Nunits", ""), Check("keys", "")>>
                            ELSE <<Check("keys", "")>>
C3_Witness ==
    /\ fn = "check_units" /\ pc = "exited"
    /\ Cardinality(MissingKeys) >= 2
    /\ LastMsg.text = "missing field"

\* the rows whose name occurs in an earlier row
Repeats == {i \in Rows : \E j \in Rows : j < i /\ Cell(j, "Unit") = Cell(i, "Unit")}
FirstRepeat == CHOOSE i \in Repeats : \A j \in Repeats : i <= j
Carrying(name) == {i \in Rows : Cell(i, "Unit").s = name}
ChpColumns == {"Unit", "PowerCapacity", "Efficiency", "CHPType", "CHPPowerToHeat",
               "CHPPowerLossFactor", "CHPMaxHeat", "STOCapacity",
               "STOSelfDischarge"}
ValidChpRow(i) ==
    [c \in ChpColumns |->
        CASE c = "Unit" -> UnitName(i)
          [] c = "PowerCapacity" -> Whole(100)
          [] c = "Efficiency" -> Num(2, 5)
          [] c = "CHPType" -> Str("extraction")
          [] c = "CHPPowerToHeat" -> Whole(2)
          [] c = "CHPPowerLossFactor" -> Num(3, 20)
          [] c = "CHPMaxHeat" -> NaN
          [] c = "STOCapacity" -> Whole(100)
          [] c = "STOSelfDischarge" -> Whole(0)]
ValidChp(n) == Table(ChpColumns, RangeIndex(n), [i \in 1 .. n |-> ValidChpRow(i)])

ChpCellValues ==
    <<  <<"CHPType", Str("back-pressure")>>, <<"CHPType", Str("p2h")>>,
        <<"CHPType", Str("Extraction")>>, <<"CHPType", Str("steam")>>,
        <<"CHPType", NaN>>,
        <<"CHPPowerLossFactor", Whole(0)>>, <<"CHPPowerLossFactor", Whole(1)>>,
        <<"CHPPowerLossFactor", Whole(-3)>>, <<"CHPPowerLossFactor", NaN>>,
        <<"CHPPowerToHeat", Str("abc")>>,
        <<"CHPMaxHeat", Whole(40)>>, <<"CHPMaxHeat", Whole(60)>>,
        <<"CHPMaxHeat", Whole(0)>>, <<"CHPMaxHeat", Whole(200)>>,
        <<"Efficiency", Whole(1)>>, <<"Efficiency", Num(3, 4)>>,
        <<"Efficiency", Num(57, 50)>>,
        <<"STOSelfDischarge", Num(-1, 10)>>, <<"STOSelfDischarge", Whole(2)>>,
        <<"STOSelfDischarge", Whole(25)>>,
        <<"STOCapacity", Whole(10)>>, <<"STOCapacity", Whole(2000)>>  >>
ChpDroppedColumns ==
    <<"Unit", "PowerCapacity", "Efficiency", "CHPType", "CHPPowerToHeat",
      "CHPPowerLossFactor", "CHPMaxHeat", "STOCapacity", "STOSelfDischarge">>
NumChpEdits(n) == n * Len(ChpCellValues) + 1 + Len(ChpDroppedColumns)
ChpEdit(n, k) ==
    IF k <= n * Len(ChpCellValues) THEN CellEdit(ChpCellValues, k)
    ELSE IF k = n * Len(ChpCellValues) + 1
    THEN [kind |-> "index", row |-> 0, col |-> "Unit", val |-> NaN]
    ELSE DropEdit(ChpDroppedColumns[k - n * Len(ChpCellValues) - 1])
RECURSIVE ChpInputFrom(_, _, _, _)
ChpInputFrom(inp, n, ix, k) ==
    IF k > Len(ix) THEN inp
    ELSE ChpInputFrom(IF ix[k] = 0 THEN inp ELSE ApplyEdit(inp, ChpEdit(n, ix[k])),
                      n, ix, k + 1)
ChpInput(n, ix) ==
    ChpInputFrom([plants |-> ValidChp(n), config |-> [HorizonLength |-> 1]],
                 n, ix, 1)

InitChp ==
    /\ fn = "check_chp"
    /\ \E n \in 1 .. MaxRows :
         \E ix \in EditChoices(NumChpEdits(n), MaxEdits) :
            LET inp == ChpInput(n, ix)
            IN plants = inp.plants /\ config = inp.config
    /\ plants_merged = None /\ AF = None /\ df_min = None /\ df_max = None
    /\ SimulationPath = None /\ store_type = ""
    /\ data = None
    /\ Start
CallCheckChp ==
    /\ fn = "check_chp" /\ pc = "call"
    /\ Finish(check_chp(config, plants))
SpecChp == InitChp /\ [][CallCheckChp]_vars

\* --------------------------------------------------------------------------
\* Properties of check_chp (SpecChp)
\* --------------------------------------------------------------------------
TypeOf(i) == Lower(Cell(i, "CHPType").s)

\* C5: when check_chp returns, every back-pressure unit has a
\* CHPPowerLossFactor of exactly 0 and every extraction unit has one in [0,1).
C5_LossFactorRange ==
    fn = "check_chp" /\ pc = "returned" =>
        \A i \in Rows :
            /\ TypeOf(i) = "back-pressure" =>
                  Eq(Cell(i, "CHPPowerLossFactor"), Whole(0))
            /\ TypeOf(i) = "extraction" =>
                  /\ Ge(Cell(i, "CHPPowerLossFactor"), Whole(0))
                  /\ Lt(Cell(i, "CHPPowerLossFactor"), Whole(1))

\* the messages of the total efficiency in the log, by position
DebugAt == {k \in 1 .. Len(log) : log[k].text = "highest overall efficiency"}
\* the k-th unit that is no p2h unit
RECURSIVE KthNotP2H(_, _)
KthNotP2H(k, i) ==
    IF TypeOf(i) # "p2h"
    THEN IF k = 1 THEN i ELSE KthNotP2H(k - 1, i + 1)
    ELSE KthNotP2H(k, i + 1)
\* the unit whose total efficiency message stands at position m of the log
UnitAt(m) == KthNotP2H(Cardinality({k \in DebugAt : k <= m}), 1)
\* the total efficiency as the claim computes it, from the retained MaxHeat
ClaimedFuel(row) ==
    FDiv(FAdd(row["PowerCapacity"],
              FMul(row["CHPPowerLossFactor"], plant_MaxHeat(row))),
         row["Efficiency"])
ClaimedEfficiency(row) ==
    FDiv(FAdd(row["PowerCapacity"], plant_MaxHeat(row)), ClaimedFuel(row))
FollowedBy(m, text) == m < Len(log) /\ log[m + 1].text = text
IsExample(row) ==
    /\ row["CHPType"] = Str("extraction") /\ row["PowerCapacity"] = Whole(100)
    /\ row["CHPPowerToHeat"] = Whole(2) /\ row["Efficiency"] = Num(2, 5)
    /\ row["CHPPowerLossFactor"] = Num(3, 20) /\ row["CHPMaxHeat"] = NaN

\* C6: for every unit that is no p2h unit and whose total efficiency is
\* computed, check_chp exits with the message of an unrealistic efficiency
\* exactly when TotalEfficiency < 0 or TotalEfficiency > 1.14, and logs the
\* warning of a very high efficiency exactly when 0.95 < TotalEfficiency <=
\* 1.14; a call that returns has computed it for every such unit.  The unit
\* PowerCapacity=100, CHPPowerToHeat=2, Efficiency=0.4, CHPPowerLossFactor=
\* 0.15 without CHPMaxHeat has MaxHeat=50, Fuel=268.75, TotalEfficiency=24/43
\* (0.558...) and gets neither message.
C6_TotalEfficiency ==
    fn = "check_chp" /\ Ended =>
        /\ \A m \in DebugAt :
              LET te == ClaimedEfficiency(plants.rows[UnitAt(m)])
              IN /\ (FollowedBy(m, "unrealistic") /\ pc = "exited"
                        /\ m + 1 = Len(log))
                    <=> (Lt(te, Whole(0)) \/ Gt(te, Num(114, 100)))
                 /\ (FollowedBy(m, "very high") /\ log[m + 1].level = "warning")
                    <=> (Gt(te, Num(95, 100)) /\ Le(te, Num(114, 100)))
                 /\ FollowedBy(m, "unrealistic") => log[m + 1].level = "critical"
                 /\ IsExample(plants.rows[UnitAt(m)]) =>
                       /\ plant_MaxHeat(plants.rows[UnitAt(m)]) = Whole(50)
                       /\ Fuel(plants.rows[UnitAt(m)]) = Num(1075, 4)
                       /\ TotalEfficiency(plants.rows[UnitAt(m)]) = Num(24, 43)
                       /\ Lt(Num(558, 1000), TotalEfficiency(plants.rows[UnitAt(m)]))
                       /\ Lt(TotalEfficiency(plants.rows[UnitAt(m)]), Num(559, 1000))
                       /\ ~FollowedBy(m, "unrealistic")
                       /\ ~FollowedBy(m, "very high")
        /\ pc = "returned" =>
              Cardinality(DebugAt) = Cardinality({i \in Rows : TypeOf(i) # "p2h"})
        /\ (pc = "returned" /\ \A i \in Rows : IsExample(plants.rows[i])) =>
              \A k \in 1 .. Len(log) :
                 log[k].text \notin {"unrealistic", "very high"}
C6_Witness ==
    /\ fn = "check_chp" /\ pc = "returned"
    /\ \A i \in Rows : IsExample(plants.rows[i])
    /\ Cardinality(DebugAt) = NRows(plants)
\* the three outcomes of the computed efficiency other than the example's
C6_WitnessFatal ==
    /\ fn = "check_chp" /\ pc = "exited" /\ LastMsg.text = "unrealistic"
    /\ Gt(LastMsg.args.value, Num(114, 100))
C6_WitnessBoundary ==
    /\ fn = "check_chp" /\ pc = "returned"
    /\ \E m \in DebugAt :
          /\ FollowedBy(m, "very high")
          /\ Eq(log[m + 1].args.value, Num(114, 100))

\* --------------------------------------------------------------------------
\* The tables given to check_clustering: n units and the m <= n units they
\* are clustered into with the capacities conserved, changed by at most
\* MaxEdits edits.
\* --------------------------------------------------------------------------
ClusteringColumns == {"Technology", "Fuel", "PowerCapacity", "Nunits", "STOCapacity"}
OriginalCapacity(i) == IF i = 1 THEN 100 ELSE 50
RECURSIVE CapacityFrom(_, _)
CapacityFrom(i, n) == IF i > n THEN 0 ELSE OriginalCapacity(i) + CapacityFrom(i + 1, n)
ClusteringRow(capacity) ==
    [c \in ClusteringColumns |->
        CASE c = "Technology" -> Str("GAS")
          [] c = "Fuel" -> Str("NG")
          [] c = "PowerCapacity" -> Whole(capacity)
          [] c = "Nunits" -> Whole(1)
          [] c = "STOCapacity" -> Whole(1000)]
Original(n) ==
    Table(ClusteringColumns, RangeIndex(n),
          [i \in 1 .. n |-> ClusteringRow(OriginalCapacity(i))])
Clustered(n, m) ==
    Table(ClusteringColumns, RangeIndex(m),
          [j \in 1 .. m |-> ClusteringRow(IF j < m THEN OriginalCapacity(j)
                                          ELSE CapacityFrom(m, n))])
ClusteringCellValues ==
    <<  <<"PowerCapacity", Whole(140)>>, <<"PowerCapacity", Whole(0)>>,
        <<"PowerCapacity", Num(1, 2000000)>>,
        <<"PowerCapacity", Whole(-100)>>,
        <<"Nunits", Whole(2)>>, <<"Technology", Str("HPHS")>>,
        <<"STOCapacity", Whole(900)>>  >>
NumClusteringEdits(n, m) == (n + m) * Len(ClusteringCellValues) + 1
ClusteringEdit(n, m, k) ==
    IF k <= n * Len(ClusteringCellValues) THEN CellEdit(ClusteringCellValues, k)
    ELSE IF k <= (n + m) * Len(ClusteringCellValues)
    THEN [CellEdit(ClusteringCellValues, k - n * Len(ClusteringCellValues))
            EXCEPT !.kind = "merged"]
    ELSE [kind |-> "storage", row |-> 0, col |-> "Technology", val |-> Str("BATS")]
RECURSIVE ClusteringInputFrom(_, _, _, _, _)
ClusteringInputFrom(inp, n, m, ix, k) ==
    IF k > Len(ix) THEN inp
    ELSE ClusteringInputFrom(IF ix[k] = 0 THEN inp
                             ELSE ApplyEdit(inp, ClusteringEdit(n, m, ix[k])),
                             n, m, ix, k + 1)
ClusteringInput(n, m, ix) ==
    ClusteringInputFrom([plants |-> Original(n), plants_merged |-> Clustered(n, m)],
                        n, m, ix, 1)

InitClustering ==
    /\ fn = "check_clustering"
    /\ \E n \in 1 .. MaxRows : \E m \in 1 .. n :
         \E ix \in EditChoices(NumClusteringEdits(n, m), MaxEdits) :
            LET inp == ClusteringInput(n, m, ix)
            IN plants = inp.plants /\ plants_merged = inp.plants_merged
    /\ config = None /\ AF = None /\ df_min = None /\ df_max = None
    /\ SimulationPath = None /\ store_type = ""
    /\ data = None
    /\ Start
CallCheckClustering ==
    /\ fn = "check_clustering" /\ pc = "call"
    /\ Finish(check_clustering(plants, plants_merged))
SpecClustering == InitClustering /\ [][CallCheckClustering]_vars

\* --------------------------------------------------------------------------
\* Properties of check_clustering (SpecClustering)
\* --------------------------------------------------------------------------
\* the pairs (Technology, Fuel) of the original table
Pairs == {<<Cell(i, "Technology"), Cell(i, "Fuel")>> : i \in Rows}
\* sum(column * Nunits) over the rows of a table that stand in ps
RECURSIVE Total(_, _, _, _)
Total(t, ps, col, i) ==
    IF i > NRows(t) THEN Whole(0)
    ELSE IF i \in ps
    THEN FAdd(FMul(t.rows[i][col], t.rows[i]["Nunits"]), Total(t, ps, col, i + 1))
    ELSE Total(t, ps, col, i + 1)
With(t, pair) ==
    {i \in Positions(t) : <<t.rows[i]["Technology"], t.rows[i]["Fuel"]>> = pair}
Capacity(t, pair) == Total(t, With(t, pair), "PowerCapacity", 1)
StorageRows(t) ==
    {i \in Positions(t) :
        t.rows[i]["Technology"].s \in {"HDAM", "HPHS", "BATS", "BEVS", "CAES", "THMS"}}
Storage(t) == Total(t, StorageRows(t), "STOCapacity", 1)
\* |a - b| > 1 % of c
MoreThanOnePercent(a, b, c) ==
    Gt(FAbs(FSub(a, b)), FDiv(c, Whole(100)))

C7_Witness ==
    /\ fn = "check_clustering" /\ pc = "returned" /\ log = <<>>
    /\ NRows(plants) = 2 /\ NRows(plants_merged) = 1
    /\ Cell(1, "PowerCapacity") = Whole(100) /\ Cell(2, "PowerCapacity") = Whole(50)
    /\ plants_merged.rows[1]["PowerCapacity"] = Whole(150)
C7_WitnessStorage ==
    /\ fn = "check_clustering" /\ pc = "returned"
    /\ Len(log) = 1 /\ log[1].text = "storage capacity not equal"

\* --------------------------------------------------------------------------
\* check_MinMaxFlows(df_min, df_max): the two arguments are numpy arrays of
\* two dimensions (lines, time steps), as sequences of rows
\* --------------------------------------------------------------------------
Shape(a) == <<Len(a), IF Len(a) = 0 THEN 0 ELSE Len(a[1])>>
Coordinates(a) == {<<l, t>> : l \in 1 .. Shape(a)[1], t \in 1 .. Shape(a)[2]}
\* a > b and a < 0, element by element
Greater(a, b) == [l \in DOMAIN a |-> [t \in DOMAIN a[l] |-> Gt(a[l][t], b[l][t])]]
Negative(a) == [l \in DOMAIN a |-> [t \in DOMAIN a[l] |-> Lt(a[l][t], Whole(0))]]
\* (mask).any()
any(mask) == \E c \in Coordinates(mask) : mask[c[1]][c[2]]
\* mutant: the coordinates are listed column by column
where_columnMajor(mask) ==
    LET c == CHOOSE c \in Coordinates(mask) :
                /\ mask[c[1]][c[2]]
                /\ \A o \in Coordinates(mask) :
                      mask[o[1]][o[2]] =>
                         c[2] < o[2] \/ (c[2] = o[2] /\ c[1] <= o[1])
    IN <<c[1] - 1, c[2] - 1>>
\* np.where(mask), first entries: (pos[0][0], pos[1][0]) is the first True
\* element in row-major order, counted from 0
where(mask) ==
    LET c == CHOOSE c \in Coordinates(mask) :
                /\ mask[c[1]][c[2]]
                /\ \A o \in Coordinates(mask) :
                      mask[o[1]][o[2]] =>
                         c[1] < o[1] \/ (c[1] = o[1] /\ c[2] <= o[2])
    IN <<c[1] - 1, c[2] - 1>>
check_MinMaxFlows(min, max) ==
    IF any(Greater(min, max))
    THEN LET pos == where(Greater(min, max))
         IN Exited(<<Msg("critical", "minimum flow higher than maximum flow",
                         [line |-> pos[1], step |-> pos[2]])>>, <<>>)
    ELSE IF any(Negative(max))
    THEN LET pos == where(Negative(max))
         IN Exited(<<Msg("critical", "maximum flow negative",
                         [line |-> pos[1], step |-> pos[2]])>>, <<>>)
    ELSE Returned(<<>>, <<>>)

\* --------------------------------------------------------------------------
\* The flow tables given to check_MinMaxFlows: up to MaxRows lines and
\* MaxRows time steps with the bounds (0, 5), changed at up to MaxEdits
\* coordinates.
\* --------------------------------------------------------------------------
Flows(L, T, v) == [l \in 1 .. L |-> [t \in 1 .. T |-> v]]
\* <<minimum, maximum>> of a changed coordinate
FlowValues ==
    <<  <<Whole(10), Whole(5)>>, <<Whole(-2), Whole(-1)>>, <<Whole(0), Whole(-1)>>,
        <<Whole(5), Whole(5)>>, <<Whole(0), Whole(0)>>, <<Whole(-3), Whole(0)>>,
        <<Num(1, 2), Num(1, 4)>>  >>
NumFlowEdits(L, T) == L * T * Len(FlowValues)
RECURSIVE FlowInputFrom(_, _, _, _)
FlowInputFrom(inp, T, ix, k) ==
    IF k > Len(ix) THEN inp
    ELSE IF ix[k] = 0 THEN FlowInputFrom(inp, T, ix, k + 1)
    ELSE LET cell == (ix[k] - 1) \div Len(FlowValues)
             v == FlowValues[((ix[k] - 1) % Len(FlowValues)) + 1]
             l == (cell \div T) + 1
             t == (cell % T) + 1
         IN FlowInputFrom([min |-> [inp.min EXCEPT ![l][t] = v[1]],
                           max |-> [inp.max EXCEPT ![l][t] = v[2]]],
                          T, ix, k + 1)
FlowInput(L, T, ix) ==
    FlowInputFrom([min |-> Flows(L, T, Whole(0)), max |-> Flows(L, T, Whole(5))],
                  T, ix, 1)

InitFlows ==
    /\ fn = "check_MinMaxFlows"
    /\ \E L \in 1 .. MaxRows : \E T \in 1 .. MaxRows :
         \E ix \in EditChoices(NumFlowEdits(L, T), MaxEdits) :
            LET inp == FlowInput(L, T, ix)
            IN df_min = inp.min /\ df_max = inp.max
    /\ plants = None /\ config = None /\ plants_merged = None /\ AF = None
    /\ SimulationPath = None /\ store_type = ""
    /\ data = None
    /\ Start
CallCheckMinMaxFlows ==
    /\ fn = "check_MinMaxFlows" /\ pc = "call"
    /\ Finish(check_MinMaxFlows(df_min, df_max))
SpecFlows == InitFlows /\ [][CallCheckMinMaxFlows]_vars

\* --------------------------------------------------------------------------
\* Properties of check_MinMaxFlows (SpecFlows)
\* --------------------------------------------------------------------------
\* the coordinates (line, time step), counted from 0
Lines == 0 .. Len(df_min) - 1
Steps == 0 .. Len(df_min[1]) - 1
MinAt(l, t) == df_min[l + 1][t + 1]
MaxAt(l, t) == df_max[l + 1][t + 1]
Before(l, t, l2, t2) == l < l2 \/ (l = l2 /\ t < t2)
Inverted == {c \in Lines \X Steps : ~Le(MinAt(c[1], c[2]), MaxAt(c[1], c[2]))}
NegativeMax == {c \in Lines \X Steps : ~Ge(MaxAt(c[1], c[2]), Whole(0))}
Reported == <<LastMsg.args.line, LastMsg.args.step>>
FirstOf(cs) == CHOOSE c \in cs : \A o \in cs : o = c \/ Before(c[1], c[2], o[1], o[2])

\* C8: check_MinMaxFlows returns exactly when min <= max and max >= 0 at
\* every (line, time step); otherwise it exits, and it reports the first
\* coordinate in row-major order with min > max if there is one, and else
\* the first coordinate in row-major order with a negative max.
C8_MinMaxFlows ==
    fn = "check_MinMaxFlows" /\ Ended =>
        /\ pc \in {"returned", "exited"}
        /\ pc = "returned" <=> Inverted = {} /\ NegativeMax = {}
        /\ pc = "returned" => log = <<>>
        /\ pc = "exited" =>
              /\ Len(log) = 1
              /\ IF Inverted # {}
                 THEN /\ LastMsg.text = "minimum flow higher than maximum flow"
                      /\ Reported = FirstOf(Inverted)
                 ELSE /\ LastMsg.text = "maximum flow negative"
                      /\ Reported = FirstOf(NegativeMax)
\* min[0,0] = 10 > max[0,0] = 5 is reported as line 0, time step 0, with a
\* second inverted coordinate further on
C8_Witness ==
    /\ fn = "check_MinMaxFlows" /\ pc = "exited"
    /\ MinAt(0, 0) = Whole(10) /\ MaxAt(0, 0) = Whole(5)
    /\ Cardinality(Inverted) = 2
    /\ Reported = <<0, 0>>
\* the first inverted coordinate differs in row-major and column-major order
C8_WitnessRowMajor ==
    /\ fn = "check_MinMaxFlows" /\ pc = "exited"
    /\ Inverted = {<<0, 1>>, <<1, 0>>}
    /\ Reported = <<0, 1>>
\* min > max is reported although a negative max stands earlier
C8_WitnessOrder ==
    /\ fn = "check_MinMaxFlows" /\ pc = "exited"
    /\ Inverted # {} /\ NegativeMax # {}
    /\ Before(FirstOf(NegativeMax)[1], FirstOf(NegativeMax)[2],
              FirstOf(Inverted)[1], FirstOf(Inverted)[2])
    /\ Reported = FirstOf(Inverted)
C8_WitnessNegative ==
    /\ fn = "check_MinMaxFlows" /\ pc = "exited"
    /\ Inverted = {} /\ LastMsg.text = "maximum flow negative"

\* --------------------------------------------------------------------------
\* check_AvailabilityFactors(plants, AF): AF maps the name of each of its
\* columns to the values of the column
\* --------------------------------------------------------------------------
RES == {"WTON", "WTOF", "PHOT", "HROR"}
\* u in AF
InAF(af, u) == u.s \in DOMAIN af
dropna(col) == SelectSeq(col, LAMBDA x : ~IsNan(x))
\* mutant: the values equal to 1.0 are counted as above 1.0
Nup_inclusive(df_af) == Len(SelectSeq(df_af, LAMBDA x : Ge(x, Whole(1))))
\* df_af[df_af>1].count() and df_af[df_af<0].count()
Nup(df_af) == Len(SelectSeq(df_af, LAMBDA x : Gt(x, Whole(1))))
Ndo(df_af) == Len(SelectSeq(df_af, LAMBDA x : Lt(x, Whole(0))))
\* the messages on the column of unit u
ColumnMessages(u, t, col) ==
    LET df_af == dropna(col)
    IN (IF \E k \in DOMAIN col : IsNan(col[k])
        THEN <<Msg("warning", "empty values",
                   [unit |-> str(u), tech |-> t.s, Nna |-> Len(col)])>>
        ELSE <<>>)
       \o (IF \A k \in DOMAIN df_af : Eq(df_af[k], Whole(1))
           THEN <<Msg("debug", "always 100%", [unit |-> str(u), tech |-> t.s])>>
           ELSE <<>>)
       \o (IF \E k \in DOMAIN df_af :
                 Lt(df_af[k], Whole(0)) \/ Gt(df_af[k], Whole(1))
           THEN <<Msg("error", "should be between 0 and 1",
                      [unit |-> str(u), tech |-> t.s,
                       Nup |-> Nup(df_af), Ndo |-> Ndo(df_af)])>>
           ELSE <<>>)
RECURSIVE AFLoop(_, _, _, _)
AFLoop(pl, af, i, l) ==
    IF i > NRows(pl) THEN Returned(l, <<>>)
    ELSE LET u == pl.rows[i]["Unit"]
             t == pl.rows[i]["Technology"]
         IN IF t.s \in RES /\ ~InAF(af, u)
            THEN Raised("ValueError",
                        l \o <<Msg("error", "not in the table, please provide",
                                   [unit |-> str(u), tech |-> t.s])>>, <<>>)
            ELSE IF InAF(af, u)
            THEN AFLoop(pl, af, i + 1, l \o ColumnMessages(u, t, af[u.s]))
            ELSE AFLoop(pl, af, i + 1,
                        l \o <<Msg("error", "not in the table, set to 100%",
                                   [unit |-> str(u), tech |-> t.s])>>)
check_AvailabilityFactors(pl, af) == AFLoop(pl, af, 1, <<>>)

\* --------------------------------------------------------------------------
\* The tables given to check_AvailabilityFactors: up to MaxRows wind units,
\* each with a column of up to MaxRows values 0.5, changed by at most
\* MaxEdits edits.
\* --------------------------------------------------------------------------
AFUnits(n) ==
    Table({"Unit", "Technology"}, RangeIndex(n),
          [i \in 1 .. n |-> [c \in {"Unit", "Technology"} |->
                                IF c = "Unit" THEN UnitName(i) ELSE Str("WTON")]])
AFTable(n, T) ==
    [u \in {UnitName(i).s : i \in 1 .. n} |-> [t \in 1 .. T |-> Num(1, 2)]]
AFTechnologies == <<Str("GAS"), Str("PHOT")>>
AFValues == <<Num(6, 5), Num(-1, 10), Whole(1), Whole(0), NaN, Whole(2)>>
\* the edits of one unit: its technology, its column dropped, one value changed
NumAFUnitEdits(T) == Len(AFTechnologies) + 1 + T * Len(AFValues)
NumAFEdits(n, T) == n * NumAFUnitEdits(T)
Without(f, x) == [y \in DOMAIN f \ {x} |-> f[y]]
ApplyAFEdit(inp, T, k) ==
    LET i == ((k - 1) \div NumAFUnitEdits(T)) + 1
        e == ((k - 1) % NumAFUnitEdits(T)) + 1
        u == UnitName(i).s
        v == e - Len(AFTechnologies) - 2
    IN IF e <= Len(AFTechnologies)
       THEN [inp EXCEPT !.plants.rows[i]["Technology"] = AFTechnologies[e]]
       ELSE IF e = Len(AFTechnologies) + 1
       THEN [inp EXCEPT !.AF = Without(@, u)]
       ELSE IF u \in DOMAIN inp.AF
       THEN [inp EXCEPT !.AF[u][(v \div Len(AFValues)) + 1] =
                            AFValues[(v % Len(AFValues)) + 1]]
       ELSE inp
RECURSIVE AFInputFrom(_, _, _, _)
AFInputFrom(inp, T, ix, k) ==
    IF k > Len(ix) THEN inp
    ELSE AFInputFrom(IF ix[k] = 0 THEN inp ELSE ApplyAFEdit(inp, T, ix[k]),
                     T, ix, k + 1)
AFInput(n, T, ix) ==
    AFInputFrom([plants |-> AFUnits(n), AF |-> AFTable(n, T)], T, ix, 1)

InitAF ==
    /\ fn = "check_AvailabilityFactors"
    /\ \E n \in 1 .. MaxRows : \E T \in 1 .. MaxRows :
         \E ix \in EditChoices(NumAFEdits(n, T), MaxEdits) :
            LET inp == AFInput(n, T, ix)
            IN plants = inp.plants /\ AF = inp.AF
    /\ config = None /\ plants_merged = None /\ df_min = None /\ df_max = None
    /\ SimulationPath = None /\ store_type = ""
    /\ data = None
    /\ Start
CallCheckAvailabilityFactors ==
    /\ fn = "check_AvailabilityFactors" /\ pc = "call"
    /\ Finish(check_AvailabilityFactors(plants, AF))
SpecAF == InitAF /\ [][CallCheckAvailabilityFactors]_vars

\* --------------------------------------------------------------------------
\* Properties of check_AvailabilityFactors (SpecAF)
\* --------------------------------------------------------------------------
Renewable(i) == Cell(i, "Technology").s \in {"HROR", "PHOT", "WTON", "WTOF"}
HasColumn(i) == Cell(i, "Unit").s \in DOMAIN AF
ColumnOfUnit(i) == AF[Cell(i, "Unit").s]
AboveOne(i) == {k \in DOMAIN ColumnOfUnit(i) : Gt(ColumnOfUnit(i)[k], Whole(1))}
BelowZero(i) == {k \in DOMAIN ColumnOfUnit(i) : Lt(ColumnOfUnit(i)[k], Whole(0))}
Absent == {i \in Rows : Renewable(i) /\ ~HasColumn(i)}
\* the units met by the loop: all of them, or those up to the first
\* renewable unit without a column
Visited == {i \in Rows : \A j \in Absent : i < j}
RangeMessages(i) ==
    {k \in 1 .. Len(log) : /\ log[k].text = "should be between 0 and 1"
                           /\ log[k].args.unit = Cell(i, "Unit")}

\* C9: check_AvailabilityFactors raises exactly when some unit with a
\* technology among HROR, PHOT, WTON, WTOF has no column in the table (so a
\* unit of another technology without a column never makes it raise); every
\* unit it has looked at whose column has values outside [0,1] has exactly
\* one error message, whose counts are the numbers of values above 1 and of
\* values below 0, and a unit whose values are all within [0,1] has none.
C9_AvailabilityFactors ==
    fn = "check_AvailabilityFactors" /\ Ended =>
        /\ pc \in {"returned", "raised"}
        /\ pc = "raised" <=> Absent # {}
        /\ pc = "raised" => exc = "ValueError" /\ LastMsg.level = "error"
        /\ \A i \in Visited :
              IF HasColumn(i) /\ AboveOne(i) \cup BelowZero(i) # {}
              THEN /\ Cardinality(RangeMessages(i)) = 1
                   /\ \A k \in RangeMessages(i) :
                         /\ log[k].level = "error"
                         /\ log[k].args.Nup = Cardinality(AboveOne(i))
                         /\ log[k].args.Ndo = Cardinality(BelowZero(i))
              ELSE RangeMessages(i) = {}
\* the values [1.2, 0.5]: one above 1 and none below 0, not fatal
C9_Witness ==
    /\ fn = "check_AvailabilityFactors" /\ pc = "returned"
    /\ \E i \in Rows :
          /\ Renewable(i) /\ HasColumn(i)
          /\ ColumnOfUnit(i) = <<Num(6, 5), Num(1, 2)>>
          /\ \E k \in RangeMessages(i) : log[k].args.Nup = 1 /\ log[k].args.Ndo = 0
C9_WitnessFatal ==
    /\ fn = "check_AvailabilityFactors" /\ pc = "raised"
    /\ \E i \in Rows : Renewable(i) /\ ~HasColumn(i)
\* a unit that is not renewable and has no column: an error, and no more
C9_WitnessNotRenewable ==
    /\ fn = "check_AvailabilityFactors" /\ pc = "returned"
    /\ \E i \in Rows : ~Renewable(i) /\ ~HasColumn(i)
    /\ \E k \in 1 .. Len(log) : log[k].text = "not in the table, set to 100%"
\* a value of exactly 1.0 beside a value above 1.0
C9_WitnessBoundary ==
    /\ fn = "check_AvailabilityFactors" /\ pc = "returned"
    /\ \E i \in Rows :
          /\ HasColumn(i)
          /\ \E k \in DOMAIN ColumnOfUnit(i) : Eq(ColumnOfUnit(i)[k], Whole(1))
          /\ \E k \in RangeMessages(i) : log[k].args.Nup = 1

\* --------------------------------------------------------------------------
\* check_simulation_environment(SimulationPath, store_type): the argument is
\* a list (list = TRUE, vars its records) or a path (exists: the path is on
\* the disk, files: the files of the directory, vars: the records pickled in
\* its Inputs.p). The import of cPickle succeeds (Python 2).
\* --------------------------------------------------------------------------
list_sets == <<"h", "d", "mk", "n", "c", "p", "l", "f", "s", "t", "tr", "u">>
list_param ==
    <<"AvailabilityFactor", "CostFixed", "CostShutDown", "Curtailment", "Demand",
      "Efficiency", "Fuel", "CostVariable", "FuelPrice", "Markup", "CostStartUp",
      "EmissionMaximum", "EmissionRate", "FlowMaximum", "FlowMinimum", "LineNode",
      "Location", "LoadShedding", "OutageFactor", "PermitPrice",
      "PriceTransmission", "PowerCapacity", "PartLoadMin", "RampUpMaximum",
      "RampDownMaximum", "RampStartUpMaximum", "RampShutDownMaximum", "Reserve",
      "StorageDischargeEfficiency", "StorageCapacity", "StorageInflow",
      "StorageOutflow", "StorageInitial", "StorageMinimum",
      "StorageChargingEfficiency", "StorageChargingCapacity", "Technology",
      "TimeDownMinimum", "TimeUpMinimum", "TimeDownInitial", "TimeUpInitial",
      "PowerInitial">>
\* mutant: the parameters are looked for before the sets
required_parametersFirst == list_param \o list_sets
\* list_sets + list_param
required == list_sets \o list_param
\* [vars[i]['name'] for i in range(len(vars))]
names(arg_vars) == [i \in 1 .. Len(arg_vars) |-> arg_vars[i].name]
SetsFile == "InputDispa-SET - Sets.xlsx"
ParamFile(var) == "InputDispa-SET - " \o var \o ".xlsx"
\* for var in ...: if var not in ...: logging.critical(...); sys.exit(1)
RECURSIVE VarLoop(_, _, _, _)
VarLoop(vs, present, text, i) ==
    IF i > Len(vs) THEN Returned(<<>>, <<>>)
    ELSE IF vs[i] \notin present
    THEN Exited(<<Msg("critical", text, [var |-> vs[i]])>>, <<>>)
    ELSE VarLoop(vs, present, text, i + 1)
Critical(text) == Exited(<<Msg("critical", text, <<>>)>>, <<>>)
check_simulation_environment(path, type) ==
    CASE type = "list" ->
            IF path.list
            THEN VarLoop(required, Range(names(path.vars)),
                         "not found in the list of input variables", 1)
            ELSE Critical("the argument must be a list")
      [] type = "pickle" ->
            IF path.list THEN Raised("TypeError", <<>>, <<>>)
            ELSE IF path.exists
            THEN IF "Inputs.p" \in path.files
                 THEN VarLoop(required, Range(names(path.vars)),
                              "pickle file without valid input", 1)
                 ELSE Critical("could not find the Inputs.p file")
            ELSE Critical("not a valid directory")
      [] type = "excel" ->
            IF path.list THEN Raised("TypeError", <<>>, <<>>)
            ELSE IF path.exists
            THEN IF SetsFile \notin path.files
                 THEN Critical("could not find the file of the sets")
                 ELSE VarLoop(list_param,
                              {var \in Range(list_param) : ParamFile(var) \in path.files},
                              "could not find the file", 1)
            ELSE Critical("not a valid directory")
      [] OTHER -> Critical("type must be list, excel or pickle")

\* --------------------------------------------------------------------------
\* The arguments given to check_simulation_environment: the list of all the
\* required records with store_type 'list', changed by at most MaxEdits edits
\* (a record removed, a record added, another store_type, a path instead of
\* the list).
\* --------------------------------------------------------------------------
Records(vs) == [i \in 1 .. Len(vs) |-> [name |-> vs[i]]]
Bundle == [list |-> TRUE, vars |-> Records(required), exists |-> FALSE, files |-> {}]
StoreTypes == <<"pickle", "excel", "hdf5">>
\* the directory written from the records: Inputs.p, the file of the sets
\* and one file for each record
Directory(records) ==
    {"Inputs.p", SetsFile} \cup {ParamFile(records[i].name) : i \in 1 .. Len(records)}
PathForms == <<{}, {"Inputs.p"}, {SetsFile}, {"Inputs.p", SetsFile}>>
NumEnvEdits == Len(required) + 1 + Len(StoreTypes) + Len(PathForms)
ApplyEnvEdit(inp, k) ==
    LET t == k - Len(required) - 1
        f == t - Len(StoreTypes)
    IN IF k <= Len(required)
       THEN [inp EXCEPT !.path.vars = SelectSeq(@, LAMBDA r : r.name # required[k])]
       ELSE IF k = Len(required) + 1
       THEN [inp EXCEPT !.path.vars = Append(@, [name |-> "extra"])]
       ELSE IF t <= Len(StoreTypes)
       THEN [inp EXCEPT !.type = StoreTypes[t]]
       ELSE IF f < Len(PathForms)
       THEN [inp EXCEPT !.path.list = FALSE, !.path.exists = TRUE,
                        !.path.files = Directory(inp.path.vars) \ PathForms[f]]
       ELSE [inp EXCEPT !.path.list = FALSE, !.path.exists = FALSE]
RECURSIVE EnvInputFrom(_, _, _)
EnvInputFrom(inp, ix, k) ==
    IF k > Len(ix) THEN inp
    ELSE EnvInputFrom(IF ix[k] = 0 THEN inp ELSE ApplyEnvEdit(inp, ix[k]), ix, k + 1)
EnvInput(ix) == EnvInputFrom([path |-> Bundle, type |-> "list"], ix, 1)

InitEnv ==
    /\ fn = "check_simulation_environment"
    /\ \E ix \in EditChoices(NumEnvEdits, MaxEdits) :
          LET inp == EnvInput(ix)
          IN SimulationPath = inp.path /\ store_type = inp.type
    /\ plants = None /\ config = None /\ plants_merged = None /\ AF = None
    /\ df_min = None /\ df_max = None
    /\ data = None
    /\ Start
CallCheckSimulationEnvironment ==
    /\ fn = "check_simulation_environment" /\ pc = "call"
    /\ Finish(check_simulation_environment(SimulationPath, store_type))
SpecEnv == InitEnv /\ [][CallCheckSimulationEnvironment]_vars

\* --------------------------------------------------------------------------
\* Properties of check_simulation_environment (SpecEnv)
\* --------------------------------------------------------------------------
Supplied == {SimulationPath.vars[i].name : i \in 1 .. Len(SimulationPath.vars)}
SetsThenParameters ==
    <<"h", "d", "mk", "n", "c", "p", "l", "f", "s", "t", "tr", "u">> \o list_param
NotSupplied == {k \in 1 .. Len(SetsThenParameters) : SetsThenParameters[k] \notin Supplied}
FirstNotSupplied ==
    SetsThenParameters[CHOOSE k \in NotSupplied : \A j \in NotSupplied : k <= j]

C10_WitnessComplete ==
    /\ fn = "check_simulation_environment" /\ pc = "returned"
    /\ store_type = "list" /\ SimulationPath.list
    /\ "extra" \in Supplied
C10_WitnessNoPath ==
    /\ fn = "check_simulation_environment" /\ pc = "exited"
    /\ store_type = "pickle" /\ ~SimulationPath.list /\ ~SimulationPath.exists
C10_WitnessType ==
    /\ fn = "check_simulation_environment" /\ pc = "exited"
    /\ store_type = "hdf5" /\ SimulationPath.list

\* --------------------------------------------------------------------------
\* check_heat_demand(plants, data): data is the sequence of the columns of
\* the heat demand table, each with its header (name) and its values; the
\* result is the outcome of the call and the table plants as the call
\* leaves it.  The labels of plants['Unit'] are taken to be distinct.
\* --------------------------------------------------------------------------
\* plants.index = plants['Unit']
Reindexed(pl) == [pl EXCEPT !.index = [i \in DOMAIN pl.rows |-> pl.rows[i]["Unit"]]]
\* the position of label u in plants.index, or 0: u in plants.index
Loc(pl, u) ==
    IF \E i \in Positions(pl) : pl.index[i] = Str(u)
    THEN CHOOSE i \in Positions(pl) :
            pl.index[i] = Str(u) /\ \A j \in 1 .. i - 1 : pl.index[j] # Str(u)
    ELSE 0
\* the builtin min(a, b): b when b < a, else a
PyMin(a, b) == IF Lt(b, a) THEN b ELSE a
\* data[u].max() and data[u].min()
RECURSIVE SeriesMax(_, _)
SeriesMax(col, k) ==
    IF k = Len(col) THEN col[k]
    ELSE LET m == SeriesMax(col, k + 1) IN IF Gt(col[k], m) THEN col[k] ELSE m
RECURSIVE SeriesMin(_, _)
SeriesMin(col, k) ==
    IF k = Len(col) THEN col[k]
    ELSE LET m == SeriesMin(col, k + 1) IN IF Lt(col[k], m) THEN col[k] ELSE m
\* the columns read for one unit of type t; the first that is missing
\* raises KeyError
HeatColumns(t) ==
    IF t = "back-pressure"
    THEN {"CHPMaxHeat", "PowerCapacity", "PartLoadMin", "CHPPowerToHeat"}
    ELSE IF t = "extraction" THEN {"CHPMaxHeat", "PowerCapacity", "CHPPowerToHeat"}
    ELSE {"CHPMaxHeat"}
\* Qmin and Qmax of a unit of one of the three types
HeatBounds(pl, i, t) ==
    LET row == pl.rows[i]
        Nunits == IF "Nunits" \in pl.columns THEN row["Nunits"] ELSE Whole(1)
        plant_Qmax == IF IsNan(row["CHPMaxHeat"]) THEN PInf ELSE row["CHPMaxHeat"]
        derived == FDiv(row["PowerCapacity"], row["CHPPowerToHeat"])
    IN CASE t = "extraction" ->
               [bound |-> TRUE, Qmin |-> Whole(0),
                Qmax |-> FMul(PyMin(derived, plant_Qmax), Nunits)]
         [] t = "back-pressure" ->
               [bound |-> TRUE,
                Qmin |-> FDiv(FMul(row["PowerCapacity"], row["PartLoadMin"]),
                              row["CHPPowerToHeat"]),
                Qmax |-> FMul(PyMin(derived, plant_Qmax), Nunits)]
         [] t = "p2h" ->
               [bound |-> TRUE, Qmin |-> Whole(0), Qmax |-> FMul(plant_Qmax, Nunits)]
\* the messages on the demand of unit u against the bounds q, up to the exit
DemandOutcome(u, t, col, q, l) ==
    LET l1 == IF Gt(SeriesMax(col, 1), q.Qmax)
              THEN Append(l, Msg("warning", "maximum demand higher than capacity",
                                 [unit |-> u, demand |-> SeriesMax(col, 1),
                                  Q |-> q.Qmax]))
              ELSE l
        l2 == IF Lt(SeriesMin(col, 1), q.Qmin)
              THEN Append(l1, Msg("warning", "minimum demand lower than generation",
                                  [unit |-> u, demand |-> SeriesMin(col, 1),
                                   Q |-> q.Qmin]))
              ELSE l1
    IN IF IsNan(q.Qmax) /\ t # "p2h"
       THEN Exited(Append(l, Msg("error", "CHPPowerToHeat is not defined",
                                 [unit |-> u])), <<>>)
       ELSE Outcome("call", "", l2, <<>>)
\* for u in data; q holds Qmin and Qmax as the previous columns left them
RECURSIVE HeatLoop(_, _, _, _, _)
HeatLoop(pl, d, k, l, q) ==
    IF k > Len(d) THEN Returned(l, <<>>)
    ELSE LET u == d[k].name
             i == Loc(pl, u)
         IN IF i = 0
            THEN HeatLoop(pl, d, k + 1,
                          Append(l, Msg("warning", "no CHP plant of that header",
                                        [unit |-> u])), q)
            ELSE LET l1 == IF \A j \in DOMAIN d[k].values : Eq(d[k].values[j], Whole(0))
                           THEN Append(l, Msg("critical", "demand always zero",
                                              [unit |-> u]))
                           ELSE l
                     valid == IsStr(pl.rows[i]["CHPType"])
                     t == IF valid THEN Lower(pl.rows[i]["CHPType"].s) ELSE ""
                     known == t \in {"extraction", "back-pressure", "p2h"}
                     l2 == IF known THEN l1
                           ELSE Append(l1, Msg("error", "CHP type not valid",
                                               [unit |-> u]))
                 IN IF "CHPType" \notin pl.columns THEN Raised("KeyError", l1, <<>>)
                    ELSE IF ~valid THEN Raised("AttributeError", l1, <<>>)
                    ELSE IF ~(HeatColumns(t) \subseteq pl.columns)
                    THEN Raised("KeyError", l1, <<>>)
                    ELSE IF known /\ IsStr(pl.rows[i]["CHPPowerToHeat"])
                                  /\ t # "p2h"
                    THEN Raised("TypeError", l1, <<>>)
                    ELSE LET q2 == IF known THEN HeatBounds(pl, i, t) ELSE q
                             r == DemandOutcome(u, t, d[k].values, q2, l2)
                         IN IF ~q2.bound THEN Raised("UnboundLocalError", l2, <<>>)
                            ELSE IF r.pc # "call" THEN r
                            ELSE HeatLoop(pl, d, k + 1, r.log, q2)
check_heat_demand(pl, d) ==
    IF "Unit" \notin pl.columns
    THEN [outcome |-> Raised("KeyError", <<>>, <<>>), plants |-> pl]
    ELSE [outcome |-> HeatLoop(Reindexed(pl), d, 1, <<>>,
                               [bound |-> FALSE, Qmin |-> NaN, Qmax |-> NaN]),
          plants |-> Reindexed(pl)]

\* --------------------------------------------------------------------------
\* The tables given to check_heat_demand: CHP units that pass check_chp, with
\* the default index, and one demand column for each of them, changed by at
\* most MaxEdits edits.
\* --------------------------------------------------------------------------
HeatColumnsOfTable == ChpColumns \cup {"PartLoadMin"}
HeatUnits(n) ==
    Table(HeatColumnsOfTable, RangeIndex(n),
          [i \in 1 .. n |-> [c \in HeatColumnsOfTable |->
                                IF c = "PartLoadMin" THEN Num(2, 5)
                                ELSE ValidChpRow(i)[c]]])
Demand(n) == [i \in 1 .. n |-> [name |-> UnitName(i).s,
                                values |-> <<Whole(10), Whole(20)>>]]
HeatCellValues ==
    <<  <<"CHPType", Str("back-pressure")>>, <<"CHPType", Str("p2h")>>,
        <<"CHPType", Str("steam")>>, <<"CHPType", NaN>>,
        <<"CHPPowerLossFactor", Whole(0)>>,
        <<"CHPMaxHeat", Whole(40)>>, <<"CHPMaxHeat", Whole(0)>>,
        <<"PowerCapacity", NaN>>, <<"CHPPowerToHeat", Str("abc")>>,
        <<"Efficiency", Num(3, 4)>>, <<"STOSelfDischarge", Whole(2)>>  >>
HeatDroppedColumns == <<"Unit", "CHPMaxHeat", "PartLoadMin">>
DemandValues == << <<Whole(0), Whole(0)>>, <<Whole(60), Whole(10)>> >>
\* the edits: a cell of plants, the index of plants set to the unit names, a
\* column of plants dropped, the values of a column of data, a column of
\* data dropped, a column added to data
NumHeatEdits(n) ==
    n * Len(HeatCellValues) + 1 + Len(HeatDroppedColumns)
    + n * (Len(DemandValues) + 1) + 1
ApplyHeatEdit(inp, n, k) ==
    LET cells == n * Len(HeatCellValues)
        d == k - cells - 1 - Len(HeatDroppedColumns)
        i == ((d - 1) \div (Len(DemandValues) + 1)) + 1
        v == ((d - 1) % (Len(DemandValues) + 1)) + 1
    IN IF k <= cells THEN ApplyEdit(inp, CellEdit(HeatCellValues, k))
       ELSE IF k = cells + 1
       THEN ApplyEdit(inp, [kind |-> "index", row |-> 0, col |-> "Unit", val |-> NaN])
       ELSE IF d <= 0
       THEN ApplyEdit(inp, DropEdit(HeatDroppedColumns[k - cells - 1]))
       ELSE IF i > n
       THEN [inp EXCEPT !.data = Append(@, [name |-> "X",
                                            values |-> <<Whole(10), Whole(20)>>])]
       ELSE IF v <= Len(DemandValues)
       THEN [inp EXCEPT !.data = [j \in DOMAIN @ |->
                IF @[j].name = UnitName(i).s
                THEN [@[j] EXCEPT !.values = DemandValues[v]] ELSE @[j]]]
       ELSE [inp EXCEPT !.data = SelectSeq(@, LAMBDA c : c.name # UnitName(i).s)]
RECURSIVE HeatInputFrom(_, _, _, _)
HeatInputFrom(inp, n, ix, k) ==
    IF k > Len(ix) THEN inp
    ELSE HeatInputFrom(IF ix[k] = 0 THEN inp ELSE ApplyHeatEdit(inp, n, ix[k]),
                       n, ix, k + 1)
HeatInput(n, ix) ==
    HeatInputFrom([plants |-> HeatUnits(n), data |-> Demand(n),
                   config |-> [HorizonLength |-> 1]], n, ix, 1)

InitHeat ==
    /\ fn = "check_heat_demand"
    /\ \E n \in 1 .. MaxRows :
         \E ix \in EditChoices(NumHeatEdits(n), MaxEdits) :
            LET inp == HeatInput(n, ix)
            IN plants = inp.plants /\ data = inp.data
    /\ config = None /\ plants_merged = None /\ AF = None
    /\ df_min = None /\ df_max = None
    /\ SimulationPath = None /\ store_type = ""
    /\ Start
CallCheckHeatDemand ==
    /\ fn = "check_heat_demand" /\ pc = "call"
    /\ LET r == check_heat_demand(plants, data)
       IN /\ plants' = r.plants
          /\ pc' = r.outcome.pc
          /\ exc' = r.outcome.exc
          /\ log' = r.outcome.log
          /\ evaluated' = r.outcome.evaluated
    /\ UNCHANGED <<fn, config, plants_merged, AF, df_min, df_max,
                   SimulationPath, store_type, data, history>>
SpecHeat == InitHeat /\ [][CallCheckHeatDemand]_vars

\* --------------------------------------------------------------------------
\* Properties of check_heat_demand (SpecHeat)
\* --------------------------------------------------------------------------
\* C11: a checker leaves every table it is given as it was: no step of a call
\* changes plants, plants_merged, AF, data, df_min or df_max.
C11_TablesUnchanged ==
    [][/\ plants' = plants /\ plants_merged' = plants_merged /\ AF' = AF
       /\ data' = data /\ df_min' = df_min /\ df_max' = df_max]_vars
\* where it fails: check_heat_demand returns, and the index of plants is no
\* more the default index
C11_IndexReplaced ==
    /\ fn = "check_heat_demand" /\ pc = "returned"
    /\ \A i \in Rows : plants.index[i] = Cell(i, "Unit") /\ IsStr(plants.index[i])

\* --------------------------------------------------------------------------
\* A session: check_chp(config, plants) and check_heat_demand(plants, data)
\* are called one after the other, twice, on the same objects; a call that
\* exits or raises ends the process.  history holds the calls finished
\* before the last one, and pc, exc, log hold the last one.
\* --------------------------------------------------------------------------
InitSession ==
    /\ fn = "session"
    /\ \E n \in 1 .. MaxRows :
         \E ix \in EditChoices(NumHeatEdits(n), MaxEdits) :
            LET inp == HeatInput(n, ix)
            IN plants = inp.plants /\ data = inp.data /\ config = inp.config
    /\ plants_merged = None /\ AF = None /\ df_min = None /\ df_max = None
    /\ SimulationPath = None /\ store_type = ""
    /\ Start
\* the calls finished so far, in order
Calls ==
    IF pc = "call" THEN <<>>
    ELSE Append(history, [pc |-> pc, exc |-> exc, log |-> log])
SessionCheckChp ==
    /\ fn = "session" /\ pc \in {"call", "returned"} /\ Len(Calls) \in {0, 2}
    /\ LET r == check_chp(config, plants)
       IN pc' = r.pc /\ exc' = r.exc /\ log' = r.log /\ evaluated' = r.evaluated
    /\ history' = Calls
    /\ UNCHANGED <<fn, plants, config, plants_merged, AF, df_min, df_max,
                   SimulationPath, store_type, data>>
SessionCheckHeatDemand ==
    /\ fn = "session" /\ pc = "returned" /\ Len(Calls) \in {1, 3}
    /\ LET r == check_heat_demand(plants, data)
       IN /\ plants' = r.plants
          /\ pc' = r.outcome.pc
          /\ exc' = r.outcome.exc
          /\ log' = r.outcome.log
          /\ evaluated' = r.outcome.evaluated
    /\ history' = Calls
    /\ UNCHANGED <<fn, config, plants_merged, AF, df_min, df_max,
                   SimulationPath, store_type, data>>
SpecSession == InitSession /\ [][SessionCheckChp \/ SessionCheckHeatDemand]_vars

\* --------------------------------------------------------------------------
\* Properties of a session (SpecSession)
\* --------------------------------------------------------------------------
\* C12: when check_chp and check_heat_demand have both returned, the second
\* check_chp and the second check_heat_demand on the same objects end as the
\* first ones did, with the same messages (levels, texts, unit identifiers).
C12_SecondRunSame ==
    fn = "session" =>
        /\ Len(Calls) >= 3 => Calls[3] = Calls[1]
        /\ Len(Calls) >= 4 => Calls[4] = Calls[2]
\* where it fails: the second check_chp names in its messages the units by
\* the index that check_heat_demand has left, the first by the default index
C12_OtherIdentifiers ==
    /\ fn = "session" /\ Len(Calls) = 4 /\ pc = "returned"
    /\ Calls[1].log # <<>> /\ Len(Calls[3].log) = Len(Calls[1].log)
    /\ Calls[1].log[1].args.u = Whole(0)
    /\ Calls[3].log[1].args.u = Cell(1, "Unit")
    /\ Calls[4] = Calls[2]

\* --------------------------------------------------------------------------
\* Properties of check_chp (SpecChp): the heat of an extraction unit
\* --------------------------------------------------------------------------
Given(row) == row["CHPMaxHeat"]
Derived(row) == FDiv(row["PowerCapacity"], row["CHPPowerToHeat"])
\* the total efficiency with Q as the maximum heat, as the message shows it
EfficiencyWith(row, Q) ==
    Round2(FDiv(FAdd(row["PowerCapacity"], Q),
                FDiv(FAdd(row["PowerCapacity"],
                          FMul(row["CHPPowerLossFactor"], Q)),
                     row["Efficiency"])))
\* the messages of the total efficiency of the extraction units
ExtractionAt == {m \in DebugAt : TypeOf(UnitAt(m)) = "extraction"}
Warned(m) == m > 1 /\ log[m - 1].text = "CHPMaxHeat higher than intersection"

C13_WitnessSmaller ==
    /\ fn = "check_chp" /\ pc = "returned"
    /\ \E m \in ExtractionAt :
          /\ Given(plants.rows[UnitAt(m)]) = Whole(40)
          /\ Derived(plants.rows[UnitAt(m)]) = Whole(50)
          /\ ~Warned(m)
          /\ log[m].args.value # EfficiencyWith(plants.rows[UnitAt(m)], Whole(50))

\* --------------------------------------------------------------------------
\* Properties of check_chp (SpecChp): the self-discharge of the heat storage
\* --------------------------------------------------------------------------
SelfDischargeChecked == Check("STOSelfDischarge", "") \in Range(evaluated)
SelfDischarge(i) == Cell(i, "STOSelfDischarge")
Warnings(text) == {k \in 1 .. Len(log) : log[k].text = text /\ log[k].level = "warning"}

\* C14: once check_chp has come to the column STOSelfDischarge, it exits
\* exactly when some unit has a value below 0 or above 24, and when it
\* returns it has logged one warning for each unit with a value above 1 (and
\* at most 24) and none for the others; so it never returns with a value
\* above 24 in the table.
C14_SelfDischarge ==
    fn = "check_chp" /\ Ended /\ SelfDischargeChecked =>
        /\ pc \in {"returned", "exited"}
        /\ pc = "exited" <=>
              \E i \in Rows : \/ Lt(SelfDischarge(i), Whole(0))
                              \/ Gt(SelfDischarge(i), Whole(24))
        /\ pc = "returned" =>
              Cardinality(Warnings("self-discharge very high"))
                 = Cardinality({i \in Rows : /\ Gt(SelfDischarge(i), Whole(1))
                                             /\ Le(SelfDischarge(i), Whole(24))})
\* where it fails: check_chp returns with a self-discharge of 25, after a
\* warning only
C14_ReturnsAbove24 ==
    /\ fn = "check_chp" /\ pc = "returned"
    /\ \E i \in Rows : SelfDischarge(i) = Whole(25)
    /\ Warnings("self-discharge very high") # {}

====
